---- MODULE Spec2Model ----
(***************************************************************************)
(* logseq-todoist-backup: one-way reconciliation of Todoist tasks into     *)
(* Logseq pages (src/src/blocks.ts, second module of the file, lines       *)
(* 166-820), the merge of the remote snapshot (src/unnamed/part_004), the  *)
(* status aliases (src/src/constants.ts) and the single-flight             *)
(* orchestrator (src/src/main.ts).                                         *)
(*                                                                         *)
(* Block text is modelled line by line.  A line is a record                *)
(*   [k, v, n, t, w]                                                       *)
(* k = property key ("" for the first line), v = the value text,           *)
(* n = the task id of a todoist-id line, t = the title of the first line,  *)
(* w = TRUE when v is written inside [[ ]].                                *)
(*   first line      [[v]] t            k = ""                             *)
(*   todoist-id::    [n](v)             v = the url                        *)
(*   todoist-due::   v                                                     *)
(*   todoist-completed:: [[v]]                                             *)
(*   todoist-status:: v                 v = the alias                      *)
(***************************************************************************)
EXTENDS Integers, Sequences, FiniteSets, TLC

(* ------------------------------ bounds -------------------------------- *)
NumTasks == 2
MaxInvocations == 3
MaxTimers == 2
MaxPages == 2
MaxListLen == 2
MaxComments == 3
MaxNotes == 2
MaxRetryLimit == 2

TaskIds == 1..NumTasks
Invocations == 1..MaxInvocations

(* ----------------------- src/src/constants.ts ------------------------- *)
TODOIST_ID_PROPERTY == "todoist-id"
TODOIST_COMPLETED_PROPERTY == "todoist-completed"
TODOIST_STATUS_PROPERTY == "todoist-status"
TODOIST_DUE_PROPERTY == "todoist-due"
TODOIST_COMMENTS_PROPERTY == "todoist-comments"
TODOIST_COMMENT_ID_PROPERTY == "todoist-comment-id"
TODOIST_COMMENT_POSTED_PROPERTY == "todoist-comment-posted"
TODOIST_PROJECT_PROPERTY == "todoist-project"
PLACEHOLDER_CONTENT == "No tasks found."
BACKLOG_PAGE_SUFFIX == "Backlog"
NO_DUE_DATE == "No due date"

(* Dates, urls and titles the remote can report. *)
DateA == "2025-03-01"
DateB == "2025-03-05"
Dates == {DateA, DateB}
\* A completion timestamp with a time part.
StampB == "2025-03-05T10:30:00Z"
BadStamp == "not-a-date"
\* task.url as sent by the remote; "" stands for an absent url.
AppUrl == "https://app.todoist.com/app/task/"
ShowTaskUrl == "https://todoist.com/showTask?id="

\* Page names under the configured prefix: "<prefix>/<suffix>".
PageNames == Dates \cup {BACKLOG_PAGE_SUFFIX}

Line(k, v, n, t, w) == [k |-> k, v |-> v, n |-> n, t |-> t, w |-> w]
PropLine(k, v) == Line(k, v, 0, "", FALSE)

\* constants.ts:20-26, StatusAliases configurations a user can store.  The
\* settings accept any non-empty strings, equal ones included.
AliasDefault == [active |-> "todo", completed |-> "done", deleted |-> "gone"]
AliasRenamed == [active |-> "todo", completed |-> "fin", deleted |-> "gone"]
AliasSame == [active |-> "x", completed |-> "x", deleted |-> "gone"]
AliasConfigs == {AliasDefault, AliasRenamed, AliasSame}

\* String.prototype.toLowerCase on the status texts of the model.
toLowerCase(s) ==
  CASE s = "Active" -> "active"
    [] s = "Completed" -> "completed"
    [] s = "Deleted" -> "deleted"
    [] OTHER -> s

\* constants.ts:34-39
statusToAlias(status, aliases) ==
  IF status = "" THEN aliases.active ELSE aliases[status]

\* Mutation of aliasToStatus: only the configured aliases are recognised.
aliasToStatusAliasesOnly(value, aliases) ==
  IF value = "" THEN ""
  ELSE IF value = aliases.active THEN "active"
  ELSE IF value = aliases.completed THEN "completed"
  ELSE IF value = aliases.deleted THEN "deleted"
  ELSE ""

\* constants.ts:48-73; "" stands for undefined.
aliasToStatus(value, aliases) ==
  IF value = "" THEN ""
  ELSE IF toLowerCase(value) \in {"active", "completed", "deleted"}
       THEN toLowerCase(value)
  ELSE IF value = aliases.active THEN "active"
  ELSE IF value = aliases.completed THEN "completed"
  ELSE IF value = aliases.deleted THEN "deleted"
  ELSE ""

(* ---------------------- src/unnamed/part_004 -------------------------- *)
\* ISO_DATE_PATTERN (constants.ts:17) on the date texts of the model.
IsIsoDate(s) == s \in Dates

\* new Date(value).toISOString().slice(0, 10), "" when the date is invalid.
ParseToIsoDay(s) ==
  CASE s \in Dates -> s
    [] s = StampB -> DateB
    [] OTHER -> ""

\* part_004:396-420.  due = [date, datetime, string]; "" is an absent field
\* and NoDue an absent due object.
NoDue == [date |-> "", datetime |-> "", string |-> ""]
DueOn(d) == [date |-> d, datetime |-> "", string |-> ""]
formatDue(due) ==
  IF due = NoDue THEN ""
  ELSE IF due.date # "" /\ IsIsoDate(due.date) THEN due.date
  ELSE IF due.datetime # "" /\ ParseToIsoDay(due.datetime) # ""
       THEN ParseToIsoDay(due.datetime)
  ELSE IF due.date # "" /\ ParseToIsoDay(due.date) # ""
       THEN ParseToIsoDay(due.date)
  ELSE IF due.string # "" /\ ParseToIsoDay(due.string) # ""
       THEN ParseToIsoDay(due.string)
  ELSE ""

\* part_004:425-428 and 433-476 on the texts of the model: a title with
\* surrounding or repeated blanks is collapsed, the others are unchanged.
safeText(s) ==
  CASE s = "  Buy   milk " -> "Buy milk"
    [] s = " " -> ""
    [] OTHER -> s
safeLinkText(s) == safeText(s)

\* A remote active task (TodoistTask) and a completed one after
\* normalizeCompletedTask (part_004:297-319).
\* The id of a record is the number id; idIsText tells whether the JSON
\* value is the string of its digits ("123") or the number (123).
ActiveTask(id, title, due, url) ==
  [id |-> id, idIsText |-> TRUE, content |-> title, due |-> due, url |-> url,
   completed |-> FALSE, completed_at |-> "", completed_date |-> "",
   status |-> "", fallbackDue |-> ""]
CompletedTask(id, title, due, url, stamp) ==
  [id |-> id, idIsText |-> TRUE, content |-> title, due |-> due, url |-> url,
   completed |-> TRUE, completed_at |-> "", completed_date |-> stamp,
   status |-> "", fallbackDue |-> ""]

\* Mutation of TaskKey: the Map is keyed by the id as it is received.
TaskKeyAsReceived(task) == <<task.id, task.idIsText>>

\* part_004:347 and 356, String(task.id): the digits of the id, whether it
\* is received as a number or as a string.
TaskKey(task) == <<task.id>>

\* Map.set on a Map kept as a sequence in insertion order (a key that is
\* already present keeps its position).
MapSet(m, task) ==
  IF \E i \in 1..Len(m) : TaskKey(m[i]) = TaskKey(task)
  THEN [i \in 1..Len(m) |->
          IF TaskKey(m[i]) = TaskKey(task) THEN task ELSE m[i]]
  ELSE Append(m, task)

RECURSIVE MergeCompleted(_, _)
MergeCompleted(m, completed) ==
  IF completed = <<>> THEN m
  ELSE MergeCompleted(
         MapSet(m, [Head(completed) EXCEPT
                      !.status = "completed",
                      !.fallbackDue = formatDue(Head(completed).due)]),
         Tail(completed))

RECURSIVE MergeActive(_, _)
MergeActive(m, active) ==
  IF active = <<>> THEN m
  ELSE MergeActive(
         MapSet(m, [Head(active) EXCEPT
                      !.completed = FALSE,
                      !.completed_at = "",
                      !.completed_date = "",
                      !.status = "active",
                      !.fallbackDue = formatDue(Head(active).due)]),
         Tail(active))

\* part_004:340-368
mergeBackupTasks(active, completed) ==
  MergeActive(MergeCompleted(<<>>, completed), active)

(* ------------------- src/src/blocks.ts: text codec -------------------- *)
\* blocks.ts:681-690
formatCompletedDate(value) ==
  IF value = "" THEN "" ELSE ParseToIsoDay(value)

\* task.completed_date ?? task.completed_at ("" stands for null)
CompletionStamp(task) ==
  IF task.completed_date # "" THEN task.completed_date ELSE task.completed_at

\* Mutation of resolveTaskPageName: the due date is looked at before the
\* completion date.
resolveTaskPageNameDueFirst(task) ==
  IF formatDue(task.due) # "" THEN formatDue(task.due)
  ELSE IF task.completed /\ CompletionStamp(task) # ""
          /\ formatCompletedDate(CompletionStamp(task)) # ""
       THEN formatCompletedDate(CompletionStamp(task))
  ELSE IF task.fallbackDue # "" /\ safeText(task.fallbackDue) # ""
          /\ IsIsoDate(safeText(task.fallbackDue))
       THEN safeText(task.fallbackDue)
  ELSE BACKLOG_PAGE_SUFFIX

\* blocks.ts:206-235; the result is the page suffix after "<prefix>/".
resolveTaskPageName(task) ==
  IF task.completed /\ CompletionStamp(task) # ""
     /\ formatCompletedDate(CompletionStamp(task)) # ""
  THEN formatCompletedDate(CompletionStamp(task))
  ELSE IF formatDue(task.due) # "" THEN formatDue(task.due)
  ELSE IF task.fallbackDue # "" /\ safeText(task.fallbackDue) # ""
          /\ IsIsoDate(safeText(task.fallbackDue))
       THEN safeText(task.fallbackDue)
  ELSE BACKLOG_PAGE_SUFFIX

\* blocks.ts:647-665
resolvePrimaryDate(task) ==
  IF formatDue(task.due) # "" THEN safeLinkText(formatDue(task.due))
  ELSE IF task.fallbackDue # "" THEN safeLinkText(task.fallbackDue)
  ELSE IF task.completed /\ formatCompletedDate(CompletionStamp(task)) # ""
       THEN safeLinkText(formatCompletedDate(CompletionStamp(task)))
  ELSE ""

\* blocks.ts:670-676
resolveDuePropertyValue(task) == formatDue(task.due)

\* blocks.ts:465, task.url ?? `https://todoist.com/showTask?id=${task.id}`
TaskUrl(task) == IF task.url = "" THEN ShowTaskUrl ELSE task.url

\* blocks.ts:454-508.  No project, description or label is modelled: the
\* project line is always #Inbox and the optional lines are left out.
blockContent(task, statusAliases) ==
  LET dueText == resolvePrimaryDate(task)
      rawTitle == safeLinkText(IF safeText(task.content) = ""
                               THEN "Untitled task"
                               ELSE safeText(task.content))
      first == Line("", IF dueText # "" THEN dueText ELSE NO_DUE_DATE,
                    0, rawTitle, TRUE)
      idLine == Line(TODOIST_ID_PROPERTY, TaskUrl(task), task.id, "", FALSE)
      projectLine == PropLine(TODOIST_PROJECT_PROPERTY, "#Inbox")
      duePropertyValue == resolveDuePropertyValue(task)
      dueLines == IF duePropertyValue # ""
                  THEN <<PropLine(TODOIST_DUE_PROPERTY, duePropertyValue)>>
                  ELSE <<>>
      completedDate == CompletionStamp(task)
      formatted == formatCompletedDate(completedDate)
      completedLines ==
        IF ~task.completed THEN <<>>
        ELSE IF formatted # ""
             THEN <<Line(TODOIST_COMPLETED_PROPERTY, formatted, 0, "", TRUE)>>
        ELSE IF completedDate # "" /\ safeLinkText(completedDate) # ""
             THEN <<PropLine(TODOIST_COMPLETED_PROPERTY,
                             safeLinkText(completedDate))>>
        ELSE <<>>
      canonicalStatus == IF task.status # "" THEN task.status
                         ELSE IF task.completed THEN "completed" ELSE "active"
      statusLine == PropLine(TODOIST_STATUS_PROPERTY,
                             statusToAlias(canonicalStatus, statusAliases))
  IN <<first, idLine, projectLine>> \o dueLines \o completedLines
       \o <<statusLine>>

\* A line matches  ^<key>::\s*(.+)$  when it starts with the key and has a
\* value.
LineMatches(line, key) ==
  /\ line.k = key
  /\ (line.v # "" \/ line.n # 0)

\* Index of the first line matching the key (the regexes carry the "m" flag
\* and String.match returns the first match); 0 when none matches.
FirstMatch(content, key) ==
  IF \E i \in 1..Len(content) : LineMatches(content[i], key)
  THEN CHOOSE i \in 1..Len(content) :
         /\ LineMatches(content[i], key)
         /\ \A j \in 1..(i - 1) : ~LineMatches(content[j], key)
  ELSE 0

\* The text of an id: what extractTodoistId returns is the whole value of
\* the property, "[<id>](<url>)"; String(task.id) is the bare id.
NoId == [n |-> 0, v |-> ""]
LinkText(n, url) == [n |-> n, v |-> url]
StringOfId(id) == [n |-> id, v |-> ""]

\* blocks.ts:695-698
extractTodoistId(content) ==
  LET i == FirstMatch(content, TODOIST_ID_PROPERTY)
  IN IF i = 0 THEN NoId ELSE LinkText(content[i].n, content[i].v)

\* blocks.ts:706-716
extractTodoistStatus(content, statusAliases) ==
  LET i == FirstMatch(content, TODOIST_STATUS_PROPERTY)
  IN IF i = 0 THEN "" ELSE aliasToStatus(content[i].v, statusAliases)

\* blocks.ts:721-723
hasCompletedProperty(content) ==
  FirstMatch(content, TODOIST_COMPLETED_PROPERTY) # 0

\* blocks.ts:769-781, on a line's value: the [[ ]] wrapper is dropped.
sanitizeDueValue(value) == safeText(value)

\* blocks.ts:728-731
extractTodoistDue(content) ==
  LET i == FirstMatch(content, TODOIST_DUE_PROPERTY)
  IN IF i = 0 THEN "" ELSE sanitizeDueValue(content[i].v)

\* blocks.ts:786-788: the regex has the "i" flag but not the "m" flag, so
\* "^" matches at the start of the content only, that is, in its first line.
hasDueProperty(content) ==
  Len(content) >= 1 /\ content[1].k = TODOIST_DUE_PROPERTY

\* Array.prototype.splice(insertIndex, 0, line), insertIndex counted from 0.
InsertAt(lines, insertIndex, line) ==
  SubSeq(lines, 1, insertIndex) \o <<line>>
    \o SubSeq(lines, insertIndex + 1, Len(lines))

\* blocks.ts:736-764
applyDueFallback(content, dueValue) ==
  LET normalized == sanitizeDueValue(dueValue)
      lines0 == IF content[1].k = "" /\ content[1].w
                   /\ content[1].v = NO_DUE_DATE
                THEN [content EXCEPT ![1].v = normalized]
                ELSE content
      dueLine == PropLine(TODOIST_DUE_PROPERTY, normalized)
      dueIdx == {i \in 1..Len(lines0) : lines0[i].k = TODOIST_DUE_PROPERTY}
      projIdx == {i \in 1..Len(lines0) :
                    lines0[i].k = TODOIST_PROJECT_PROPERTY}
      Min(S) == CHOOSE i \in S : \A j \in S : i <= j
  IN IF normalized = "" \/ Len(content) = 0 THEN content
     ELSE IF dueIdx # {} THEN [lines0 EXCEPT ![Min(dueIdx)] = dueLine]
     ELSE InsertAt(lines0, IF projIdx # {} THEN Min(projIdx) ELSE 1, dueLine)

(* ---------------- src/src/blocks.ts: reconciliation ------------------- *)
\* The document store: pages[p] is the list of the contents of the
\* top-level blocks of page "<prefix>/<p>", <<>> for a page that does not
\* exist.  A block's uuid is its position in the page: within one call of
\* writeBlocksToPage blocks are updated and appended before any block is
\* removed, so the position identifies the block as the uuid does.
EmptyContent == <<>>
PlaceholderBlock == <<Line("", "", 0, PLACEHOLDER_CONTENT, FALSE)>>

\* What a run did to the store, kept for the properties: the blocks it
\* overwrote (content before and after), created and removed.
\* log is the sequence of the editor calls of the run that change a block,
\* in the order the run awaits them.
NoOps == [updated |-> {}, created |-> {}, removedByPass |-> {},
          removedByCleanup |-> {}, log |-> <<>>]
EditorCall(kind, p) == [kind |-> kind, page |-> p]
\* n calls of one kind on one page.
EditorCalls(kind, p, n) == [i \in 1..n |-> EditorCall(kind, p)]
BlockRef(p, content) == [page |-> p, content |-> content]
UpdateRef(p, before, after) ==
  [page |-> p, before |-> before, after |-> after]

\* blocks.ts:287-291: getPage, and createPage with createFirstBlock when
\* the page is missing (the first block is empty).
EnsurePage(pgs, p) ==
  IF pgs[p] = <<>> THEN [pgs EXCEPT ![p] = <<EmptyContent>>] ELSE pgs

\* Mutation of buildBlockMap: every block gets an entry, the blocks without
\* todoist-id under the key of no id.
buildBlockMapAllBlocks(tree) ==
  [i \in 1..Len(tree) |->
     [key |-> extractTodoistId(tree[i]), uuid |-> i, content |-> tree[i]]]

\* blocks.ts:793-803: a Map from id text to block, as a sequence of
\* [key, uuid, content] in insertion order; a later block of the same id
\* replaces the value of the entry.
RECURSIVE buildBlockMap(_)
buildBlockMap(tree) ==
  IF tree = <<>> THEN <<>>
  ELSE LET n == Len(tree)
           m == buildBlockMap(SubSeq(tree, 1, n - 1))
           id == extractTodoistId(tree[n])
           entry == [key |-> id, uuid |-> n, content |-> tree[n]]
       IN IF id = NoId THEN m
          ELSE IF \E i \in 1..Len(m) : m[i].key = id
               THEN [i \in 1..Len(m) |->
                       IF m[i].key = id THEN entry ELSE m[i]]
          ELSE Append(m, entry)

MapHas(m, key) == \E i \in 1..Len(m) : m[i].key = key
MapGet(m, key) == m[CHOOSE i \in 1..Len(m) : m[i].key = key]

\* Editor.removeBlock for a set of blocks of one page.
RemoveBlocks(tree, uuids) ==
  LET keep == {i \in 1..Len(tree) : i \notin uuids}
      Nth(k) == CHOOSE i \in keep :
                  Cardinality({j \in keep : j <= i}) = k
  IN [k \in 1..Cardinality(keep) |-> tree[Nth(k)]]

\* Mutation of IsHistorical: any block with a recognised status is kept,
\* as if the test were "if (status)" and not "status === 'completed'".
IsHistoricalAnyStatus(content, statusAliases) ==
  \/ extractTodoistStatus(content, statusAliases) # ""
  \/ hasCompletedProperty(content)

\* blocks.ts:334-341 and 398-405: the block is kept as historical.
IsHistorical(content, statusAliases) ==
  LET status == extractTodoistStatus(content, statusAliases)
  IN \/ status = "completed"
     \/ (status = "" /\ hasCompletedProperty(content))

\* Mutation of OverwriteContent: the encoded content is written as it is,
\* without the due fallback.
OverwriteContentAsEncoded(existingContent, formatted) == formatted

\* blocks.ts:308-312: the content written over an existing block.
OverwriteContent(existingContent, formatted) ==
  LET existingDue == extractTodoistDue(existingContent)
  IN IF existingDue # "" /\ ~hasDueProperty(formatted)
     THEN applyDueFallback(formatted, existingDue)
     ELSE formatted

\* Mutation of SeenAdd: the id is not recorded as seen.
SeenAddForgotten(seenIds, todoistId) == seenIds

\* blocks.ts:324
SeenAdd(seenIds, todoistId) == seenIds \cup {todoistId}

\* blocks.ts:300-330: the loop over the desired blocks of one page.
\* s = [tree, map, seen, ops].
RECURSIVE WriteLoop(_, _, _)
WriteLoop(s, p, blocks) ==
  IF blocks = <<>> THEN s
  ELSE
    LET content == Head(blocks)
        todoistId == extractTodoistId(content)
    IN IF todoistId = NoId THEN WriteLoop(s, p, Tail(blocks))
       ELSE IF MapHas(s.map, todoistId)
       THEN LET existing == MapGet(s.map, todoistId)
                formatted == OverwriteContent(existing.content, content)
            IN WriteLoop(
                 [tree |-> [s.tree EXCEPT ![existing.uuid] = formatted],
                  map |-> s.map,
                  seen |-> SeenAdd(s.seen, todoistId),
                  ops |-> [s.ops EXCEPT !.updated = @ \cup
                             {UpdateRef(p, s.tree[existing.uuid],
                                        formatted)},
                           !.log = Append(@, EditorCall("updateBlock", p))]],
                 p, Tail(blocks))
       ELSE WriteLoop(
              [tree |-> Append(s.tree, content),
               map |-> Append(s.map, [key |-> todoistId,
                                      uuid |-> Len(s.tree) + 1,
                                      content |-> content]),
               seen |-> SeenAdd(s.seen, todoistId),
               ops |-> [s.ops EXCEPT !.created = @ \cup
                          {BlockRef(p, content)},
                        !.log = Append(@, EditorCall("appendBlockInPage",
                                                     p))]],
              p, Tail(blocks))

\* blocks.ts:286-348.  st = [pages, ops]; blocks is the list of desired
\* contents of the page.
writeBlocksToPage(st, pageName, blocks, statusAliases) ==
  LET pgs == EnsurePage(st.pages, pageName)
      s == WriteLoop([tree |-> pgs[pageName],
                      map |-> buildBlockMap(pgs[pageName]),
                      seen |-> {}, ops |-> st.ops], pageName, blocks)
      removed == {i \in 1..Len(s.map) :
                    /\ s.map[i].key \notin s.seen
                    /\ ~IsHistorical(s.map[i].content, statusAliases)}
      tree == RemoveBlocks(s.tree, {s.map[i].uuid : i \in removed})
      tree2 == IF Len(blocks) = 0 /\ Len(s.map) = 0
               THEN Append(tree, PlaceholderBlock)
               ELSE tree
  IN [pages |-> [pgs EXCEPT ![pageName] = tree2],
      ops |-> [s.ops EXCEPT !.removedByPass = @ \cup
                 {BlockRef(pageName, s.map[i].content) : i \in removed},
               !.log = @ \o EditorCalls("removeBlock", pageName,
                                        Cardinality(removed))
                         \o (IF tree2 # tree
                             THEN <<EditorCall("placeholder", pageName)>>
                             ELSE <<>>)]]

\* blocks.ts:363-369
CurrentTaskIds(tasks) == {StringOfId(tasks[i].id) : i \in 1..Len(tasks)}

\* blocks.ts:388-408: one page that is not a destination of the run.
CleanupPage(st, pageName, currentTaskIds, statusAliases) ==
  LET tree == st.pages[pageName]
      blockMap == buildBlockMap(tree)
      removed == {i \in 1..Len(blockMap) :
                    /\ blockMap[i].key \notin currentTaskIds
                    /\ ~IsHistorical(blockMap[i].content, statusAliases)}
  IN IF tree = <<>> THEN st
     ELSE [pages |-> [st.pages EXCEPT ![pageName] =
                        RemoveBlocks(tree, {blockMap[i].uuid : i \in removed})],
           ops |-> [st.ops EXCEPT !.removedByCleanup = @ \cup
                      {BlockRef(pageName, blockMap[i].content) :
                         i \in removed},
                    !.log = @ \o EditorCalls("cleanup", pageName,
                                             Cardinality(removed))]]

\* The pages of the run, in the insertion order of tasksByPage
\* (blocks.ts:254-267).
RECURSIVE PagesOf(_)
PagesOf(tasks) ==
  IF tasks = <<>> THEN <<>>
  ELSE LET n == Len(tasks)
           before == PagesOf(SubSeq(tasks, 1, n - 1))
           pg == resolveTaskPageName(tasks[n])
       IN IF \E i \in 1..Len(before) : before[i] = pg THEN before
          ELSE Append(before, pg)

\* The desired contents of one page, in the order of the tasks.
RECURSIVE BlocksOfPage(_, _, _)
BlocksOfPage(tasks, pg, statusAliases) ==
  IF tasks = <<>> THEN <<>>
  ELSE (IF resolveTaskPageName(Head(tasks)) = pg
        THEN <<blockContent(Head(tasks), statusAliases)>> ELSE <<>>)
       \o BlocksOfPage(Tail(tasks), pg, statusAliases)

RECURSIVE WritePages(_, _, _, _)
WritePages(st, pageSeq, tasks, statusAliases) ==
  IF pageSeq = <<>> THEN st
  ELSE WritePages(
         writeBlocksToPage(st, Head(pageSeq),
                           BlocksOfPage(tasks, Head(pageSeq), statusAliases),
                           statusAliases),
         Tail(pageSeq), tasks, statusAliases)

\* blocks.ts:377-409: the loop over getAllPages.
RECURSIVE CleanupPages(_, _, _, _)
CleanupPages(st, todo, currentTaskIds, statusAliases) ==
  IF todo = {} THEN st
  ELSE LET pg == CHOOSE q \in todo : TRUE
       IN CleanupPages(CleanupPage(st, pg, currentTaskIds, statusAliases),
                       todo \ {pg}, currentTaskIds, statusAliases)

\* Mutation of cleanupObsoletePages: the other pages are left as they are.
cleanupObsoletePagesSkipped(st, tasks, statusAliases) == st

\* blocks.ts:358-410.  All pages of the model are under the prefix.
cleanupObsoletePages(st, tasks, statusAliases) ==
  LET dest == {resolveTaskPageName(tasks[i]) : i \in 1..Len(tasks)}
  IN CleanupPages(st, PageNames \ dest, CurrentTaskIds(tasks), statusAliases)

\* Mutation of writeBlocks: the other pages are cleaned before the
\* destination pages are written.
writeBlocksCleanupFirst(pgs, tasks, statusAliases) ==
  WritePages(
    cleanupObsoletePages([pages |-> pgs, ops |-> NoOps], tasks, statusAliases),
    PagesOf(tasks), tasks, statusAliases)

\* blocks.ts:246-277
writeBlocks(pgs, tasks, statusAliases) ==
  cleanupObsoletePages(
    WritePages([pages |-> pgs, ops |-> NoOps], PagesOf(tasks), tasks,
               statusAliases),
    tasks, statusAliases)

\* blocks.ts:269-276 and 293-295: the k-th page of the run can neither be
\* found nor created.  writeBlocksToPage throws before it touches a block
\* of that page; the exception leaves the loop of writeBlocks, so the pages
\* after it are not written and cleanupObsoletePages is not called.
\* Mutation of writeBlocksFailing: the failure of a page is caught in the
\* loop, which goes on with the other pages and the cleanup.
writeBlocksFailingContinues(pgs, tasks, statusAliases, k) ==
  LET seq == PagesOf(tasks)
      others == [j \in 1..(Len(seq) - 1) |->
                   IF j < k THEN seq[j] ELSE seq[j + 1]]
  IN cleanupObsoletePages(
       WritePages([pages |-> pgs, ops |-> NoOps], others, tasks,
                  statusAliases),
       tasks, statusAliases)

writeBlocksFailing(pgs, tasks, statusAliases, k) ==
  WritePages([pages |-> pgs, ops |-> NoOps],
             SubSeq(PagesOf(tasks), 1, k - 1), tasks, statusAliases)

(* ---------------- src/src/blocks.ts: comment children ----------------- *)
\* A child block is [content, children]; a comment of the remote is
\* [id, posted_at, content], posted_at "" standing for null.
ChildBlock(content, children) == [content |-> content, children |-> children]

\* blocks.ts:636-642, commentTimestamp, as a rank: the dates of the model
\* in their order, then the comments without a timestamp (infinity).
commentTimestamp(value) ==
  CASE value = "" -> 3
    [] value = DateA -> 1
    [] value = DateB -> 2
    [] OTHER -> 3

\* blocks.ts:521-528: the comparison of the sort; ids are single digits,
\* so that localeCompare of their strings is the order of the numbers.
CommentBefore(a, b) ==
  IF commentTimestamp(a.posted_at) # commentTimestamp(b.posted_at)
  THEN commentTimestamp(a.posted_at) < commentTimestamp(b.posted_at)
  ELSE a.id < b.id

\* [...comments].sort(...): a stable insertion sort.
RECURSIVE SortComments(_)
SortComments(comments) ==
  IF comments = <<>> THEN <<>>
  ELSE LET n == Len(comments)
           last == comments[n]
           before == SortComments(SubSeq(comments, 1, n - 1))
           pos == Cardinality({i \in 1..Len(before) :
                                ~CommentBefore(last, before[i])})
       IN InsertAt(before, pos, last)

\* blocks.ts:555-568, without the link to the comment.
commentContent(comment) ==
  <<Line("", "", 0, safeLinkText(safeText(comment.content)), FALSE),
    PropLine(TODOIST_COMMENT_ID_PROPERTY, ToString(comment.id))>>
  \o (IF comment.posted_at # ""
      THEN <<PropLine(TODOIST_COMMENT_POSTED_PROPERTY, comment.posted_at)>>
      ELSE <<>>)

\* blocks.ts:545-547
buildCommentWrapperContent(commentCount) ==
  <<Line("", "", 0, "comments...", FALSE),
    PropLine(TODOIST_COMMENTS_PROPERTY, ToString(commentCount))>>

\* blocks.ts:515-538; comments is task.comments ?? [].
buildCommentBlocks(comments) ==
  IF Len(comments) = 0 THEN <<>>
  ELSE LET sorted == SortComments(comments)
       IN <<ChildBlock(buildCommentWrapperContent(Len(sorted)),
                       [k \in 1..Len(sorted) |->
                          ChildBlock(commentContent(sorted[k]), <<>>)])>>

\* blocks.ts:629-631
isCommentWrapper(content) ==
  \E i \in 1..Len(content) : content[i].k = TODOIST_COMMENTS_PROPERTY

\* Mutation of RemoveWrappers: every child of the block is removed.
RemoveWrappersAndNotes(existing) == <<>>

\* The children of a block without those that are comment wrappers.
RECURSIVE RemoveWrappers(_)
RemoveWrappers(existing) ==
  IF existing = <<>> THEN <<>>
  ELSE (IF isCommentWrapper(Head(existing).content) THEN <<>>
        ELSE <<Head(existing)>>) \o RemoveWrappers(Tail(existing))

\* Editor.insertBatchBlock(parent, children, {sibling: false}): the blocks
\* become children of the parent, before or after the children it has.
insertBatchBlock(existing, children, atEnd) ==
  IF atEnd THEN existing \o children ELSE children \o existing

\* Mutation of syncComments: the wrappers the block has are not removed.
syncCommentsKeepsWrappers(existing, children, atEnd) ==
  IF Len(children) > 0 THEN insertBatchBlock(existing, children, atEnd)
  ELSE existing

\* blocks.ts:599-617; existing is the list of the children of the parent,
\* the result is that list after the call.
syncComments(existing, children, atEnd) ==
  IF Len(children) > 0
  THEN insertBatchBlock(RemoveWrappers(existing), children, atEnd)
  ELSE RemoveWrappers(existing)

(* ------------------ src/src/scheduler.ts: the timer ------------------- *)
\* scheduler.ts:5: the handle when no timer is armed (null).
NoTimer == 0

\* The handles window.setTimeout can return.
TimerIds == 1..MaxTimers

\* The scheduler is s = [handle, timers]: the module variable
\* scheduledSync and the timers of the window that are pending.
\* scheduler.ts:30-35
cancelScheduledSync(s) ==
  IF s.handle # NoTimer
  THEN [handle |-> NoTimer, timers |-> s.timers \ {s.handle}]
  ELSE s

\* window.setTimeout: a handle that no pending timer has; when every
\* handle of the model is taken no timer is added.
setTimeout(s) ==
  IF s.timers = TimerIds THEN s
  ELSE LET t == CHOOSE u \in TimerIds \ s.timers :
                  \A v \in TimerIds \ s.timers : u <= v
       IN [handle |-> t, timers |-> s.timers \cup {t}]

\* Mutation of scheduleAutoSync: the previous timer is not cancelled
\* before the next one is armed.
scheduleAutoSyncKeepsPrevious(s, token) ==
  IF token = "" THEN cancelScheduledSync(s)
  ELSE setTimeout(s)

\* scheduler.ts:12-25 (main.ts:511-524)
scheduleAutoSync(s, token) ==
  IF token = "" THEN cancelScheduledSync(s)
  ELSE setTimeout(cancelScheduledSync(s))

(* ------------------------------- state -------------------------------- *)
VARIABLES
  pages,           \* the document store
  settings,        \* logseq.settings: [token, statusAliases, excludePatterns]
  phase,           \* "idle", or "done" when a reconciliation has just ended
  run,             \* the reconciliation that has just ended
  syncInProgress,  \* main.ts:92
  inv,             \* the calls of syncTodoist that have not returned yet
  scheduledSync,   \* scheduler.ts:5, the handle of the timer armed last
  timers,          \* the timers of the window that are pending
  settingsChanged, \* a settings change waits for its callback
  input,           \* the arguments of a function taken alone
  output           \* its result, once it has been applied

vars == <<pages, settings, phase, run, syncInProgress, inv, scheduledSync,
          timers, settingsChanged, input, output>>

pure == <<input, output>>

sched == <<scheduledSync, timers>>
Scheduler == [handle |-> scheduledSync, timers |-> timers]
SetScheduler(s) == scheduledSync' = s.handle /\ timers' = s.timers

(* ------------------------- the remote snapshot ------------------------ *)
\* What the remote reports for one task; shape 0 is a task it does not
\* report.  Shapes 1-4 come from the active list, 5-8 from the list of
\* completed items; shape 8 is an item without completed_at and
\* completed_date (part_004:311-312).
ShapeTask(id, k) ==
  CASE k = 1 -> ActiveTask(id, "Draft report", DueOn(DateA), AppUrl)
    [] k = 2 -> ActiveTask(id, "Draft report", DueOn(DateB), AppUrl)
    [] k = 3 -> ActiveTask(id, "Buy milk", DueOn(DateA), AppUrl)
    [] k = 4 -> ActiveTask(id, "Draft report", NoDue, AppUrl)
    [] k = 5 -> CompletedTask(id, "Draft report", NoDue, AppUrl, StampB)
    [] k = 6 -> CompletedTask(id, "Draft report", NoDue, "", DateA)
    [] k = 7 -> CompletedTask(id, "Draft report", DueOn(DateA), AppUrl, StampB)
    [] k = 8 -> CompletedTask(id, "Draft report", NoDue, AppUrl, "")
\* The shapes each specification draws its snapshots from.
MoveShapes == {1, 2, 3, 5, 6}
DueShapes == {1, 2, 4, 5, 7}
AliasShapes == {1, 5}
RunShapes == {1}
FailShapes == {1, 2, 4}
ArchiveShapes == {5, 8}
SnapshotsOf(shapes) == [TaskIds -> shapes \cup {0}]

RECURSIVE ListOf(_, _, _)
ListOf(snap, id, completed) ==
  IF id > NumTasks THEN <<>>
  ELSE (IF snap[id] # 0 /\ ShapeTask(id, snap[id]).completed = completed
        THEN <<ShapeTask(id, snap[id])>> ELSE <<>>)
       \o ListOf(snap, id + 1, completed)

\* The title-exclusion patterns of the settings and RegExp.test on the
\* titles of the model.
PatternSets == {{}, {"/^Draft/i"}}
PatternTest(pattern, title) ==
  pattern = "/^Draft/i" /\ title \in {"Draft report"}

\* The orchestrator's filter: a task is dropped when a pattern matches its
\* title.
RECURSIVE applyTitleExclusion(_, _)
applyTitleExclusion(tasks, excludePatterns) ==
  IF tasks = <<>> THEN <<>>
  ELSE (IF \E pt \in excludePatterns : PatternTest(pt, Head(tasks).content)
        THEN <<>> ELSE <<Head(tasks)>>)
       \o applyTitleExclusion(Tail(tasks), excludePatterns)

\* The desired set of a run: merge, then filter.
DesiredTasks(snap, excludePatterns) ==
  applyTitleExclusion(
    mergeBackupTasks(ListOf(snap, 1, FALSE), ListOf(snap, 1, TRUE)),
    excludePatterns)

(* --------------------- reconciliation, run by run --------------------- *)
NoRun == [tasks |-> <<>>, aliases |-> AliasDefault, ops |-> NoOps,
          failedPage |-> ""]
NoSnap == [id \in TaskIds |-> 0]
NoCall == [pc |-> "none", trigger |-> "manual", snap |-> NoSnap,
           page |-> 0, error |-> ""]
IdleInv == [i \in Invocations |-> NoCall]

InitState ==
  /\ pages = [p \in PageNames |-> <<>>]
  /\ settings = [token |-> "token", statusAliases |-> AliasDefault,
                 excludePatterns |-> {}]
  /\ phase = "idle"
  /\ run = NoRun
  /\ syncInProgress = FALSE
  /\ inv = IdleInv
  \* main.ts:162: main arms the timer
  /\ LET s == scheduleAutoSync([handle |-> NoTimer, timers |-> {}], "token")
     IN scheduledSync = s.handle /\ timers = s.timers
  /\ settingsChanged = FALSE

Init ==
  /\ InitState
  /\ input = <<>>
  /\ output = [applied |-> FALSE, value |-> <<>>]

\* One run taken alone, from its trigger to its return, none of its awaited
\* operations failing: fetch, merge, filter, writeBlocks.  The guard is set
\* and reset within the step.
SyncOver(snapshots) ==
  /\ phase = "idle"
  /\ settings.token # ""
  /\ ~syncInProgress
  /\ \E snap \in snapshots :
       LET tasks == DesiredTasks(snap, settings.excludePatterns)
           res == writeBlocks(pages, tasks, settings.statusAliases)
       IN /\ pages' = res.pages
          /\ run' = [tasks |-> tasks, aliases |-> settings.statusAliases,
                     ops |-> res.ops, failedPage |-> ""]
  /\ phase' = "done"
  /\ UNCHANGED <<settings, syncInProgress, inv, sched, settingsChanged,
                 pure>>

Sync == SyncOver(SnapshotsOf(MoveShapes))
SyncDue == SyncOver(SnapshotsOf(DueShapes))
SyncAlias == SyncOver(SnapshotsOf(AliasShapes))
SyncPages == SyncOver(SnapshotsOf(FailShapes))
SyncArchive == SyncOver(SnapshotsOf(ArchiveShapes))

\* A run in which a page of the run does not exist and cannot be created:
\* getPage and createPage both return null (blocks.ts:287-295).  The run
\* ends in the catch block of the orchestrator.
FailsAt(tasks, pageName, res) ==
  /\ pages[pageName] = <<>>
  /\ pages' = res.pages
  /\ run' = [tasks |-> tasks,
             aliases |-> settings.statusAliases,
             ops |-> res.ops,
             failedPage |-> pageName]

FailsOn(tasks) ==
  \E k \in 1..Len(PagesOf(tasks)) :
    FailsAt(tasks, PagesOf(tasks)[k],
            writeBlocksFailing(pages, tasks, settings.statusAliases, k))

SyncFails ==
  /\ phase = "idle"
  /\ settings.token # ""
  /\ ~syncInProgress
  /\ \E snap \in SnapshotsOf(FailShapes) :
       FailsOn(DesiredTasks(snap, settings.excludePatterns))
  /\ phase' = "done"
  /\ UNCHANGED <<settings, syncInProgress, inv, sched, settingsChanged,
                 pure>>

\* The run has returned; the next one starts from the store alone.
Return ==
  /\ phase = "done"
  /\ phase' = "idle"
  /\ run' = NoRun
  /\ UNCHANGED <<pages, settings, syncInProgress, inv, sched,
                 settingsChanged,
                 pure>>

\* The user edits the exclusion patterns between two runs; the callback of
\* onSettingsChanged (main.ts:158-160) has run before the next one.
ExcludeChanged ==
  /\ phase = "idle"
  /\ \E e \in PatternSets :
       /\ e # settings.excludePatterns
       /\ settings' = [settings EXCEPT !.excludePatterns = e]
  /\ SetScheduler(scheduleAutoSync(Scheduler, settings.token))
  /\ UNCHANGED <<pages, phase, run, syncInProgress, inv, settingsChanged,
                 pure>>

\* The user edits the status aliases between two runs; the callback of
\* onSettingsChanged (main.ts:158-160) has run before the next one.
AliasChanged ==
  /\ phase = "idle"
  /\ \E a \in AliasConfigs :
       /\ a # settings.statusAliases
       /\ settings' = [settings EXCEPT !.statusAliases = a]
  /\ SetScheduler(scheduleAutoSync(Scheduler, settings.token))
  /\ UNCHANGED <<pages, phase, run, syncInProgress, inv, settingsChanged,
                 pure>>

\* Moves, title changes, completion and url changes, exclusion patterns.
Next == Sync \/ Return \/ ExcludeChanged

Spec == Init /\ [][Next]_vars

\* Completed tasks reported with and without a due date.
NextDue == SyncDue \/ Return

SpecDue == Init /\ [][NextDue]_vars

\* Status aliases edited between runs.
NextAlias == SyncAlias \/ Return \/ AliasChanged

SpecAlias == Init /\ [][NextAlias]_vars

\* Runs over several pages, a page of which may fail to be created.
NextFail == SyncPages \/ SyncFails \/ Return

SpecFail == Init /\ [][NextFail]_vars

(* --------------------- functions taken alone -------------------------- *)
\* The sequences over a set, up to a length.
SeqsUpTo(S, n) == UNION {[1..k -> S] : k \in 0..n}

\* The records the two listings can hold: an id received as a string or as
\* a number, with or without a due date.
ActiveRecords ==
  {[ActiveTask(id, "Draft report", due, AppUrl) EXCEPT !.idIsText =Text] :
     id \in TaskIds, due \in {NoDue, DueOn(DateA)}, Text \in BOOLEAN}
CompletedRecords ==
  {[CompletedTask(id, "Draft report", NoDue, AppUrl, StampB)
      EXCEPT !.idIsText = Text] :
     id \in TaskIds, Text \in BOOLEAN}
MergeInputs ==
  [active : SeqsUpTo(ActiveRecords, MaxListLen),
   completed : SeqsUpTo(CompletedRecords, MaxListLen)]

InitMerge ==
  /\ InitState
  /\ input \in MergeInputs
  /\ output = [applied |-> FALSE, value |-> <<>>]

\* part_004:340-368
ApplyMerge ==
  /\ ~output.applied
  /\ output' = [applied |-> TRUE,
                value |-> mergeBackupTasks(input.active, input.completed)]
  /\ UNCHANGED <<pages, settings, phase, run, syncInProgress, inv, sched,
                 settingsChanged, input>>

NextMerge == ApplyMerge

\* The tasks resolveTaskPageName can be given: completed or not, with a
\* completion timestamp that parses, one that does not, or none, in either
\* field; with a due date, a due datetime, a due text that is no date, or
\* no due; with a fallback that is a date, a text, blank, or absent.
ResolveInputs ==
  {[CompletedTask(1, "Draft report", due, AppUrl, stamp) EXCEPT
      !.completed = c, !.completed_at = at, !.fallbackDue = fb] :
     c \in BOOLEAN,
     stamp \in {"", StampB, BadStamp},
     at \in {"", DateA},
     due \in {NoDue, DueOn(DateA),
              [date |-> "", datetime |-> StampB, string |-> ""],
              [date |-> "", datetime |-> "", string |-> "next week"]},
     fb \in {"", DateB, "next week", " "}}

InitResolve ==
  /\ InitState
  /\ input \in ResolveInputs
  /\ output = [applied |-> FALSE, value |-> ""]

\* blocks.ts:206-235
ApplyResolve ==
  /\ ~output.applied
  /\ output' = [applied |-> TRUE, value |-> resolveTaskPageName(input)]
  /\ UNCHANGED <<pages, settings, phase, run, syncInProgress, inv, sched,
                 settingsChanged, input>>

NextResolve == ApplyResolve

SpecResolve == InitResolve /\ [][NextResolve]_vars

\* The comments the remote can report for a task.
Comments ==
  {[id |-> 1, posted_at |-> DateB, content |-> "Sent to review"],
   [id |-> 2, posted_at |-> DateA, content |-> "First draft"],
   [id |-> 3, posted_at |-> "", content |-> "Sent to review"]}
CommentLists == SeqsUpTo(Comments, MaxComments)

\* A child the user wrote under the block of a task.
NoteChild == ChildBlock(<<Line("", "", 0, "my note", FALSE)>>, <<>>)

\* The children the block of a task can have before its first processing
\* of the model: none, a note, a wrapper, or two wrappers around a note.
InitialChildren ==
  {<<>>, <<NoteChild>>,
   buildCommentBlocks(<<CHOOSE c \in Comments : c.id = 1>>),
   buildCommentBlocks(<<CHOOSE c \in Comments : c.id = 1>>)
     \o <<NoteChild>>
     \o buildCommentBlocks(<<CHOOSE c \in Comments : c.id = 2>>)}

\* input is the list of comments of the task at its last processing,
\* output.value the children of its block.
InitComments ==
  /\ InitState
  /\ input = <<>>
  /\ output \in [applied : {FALSE}, value : InitialChildren]

\* blocks.ts:326-329 with 260: the task is processed and its block exists;
\* the comment blocks are built from the comments that came with the task
\* and syncComments is called on the block.
ProcessComments ==
  /\ \E comments \in CommentLists : \E atEnd \in BOOLEAN :
       /\ input' = comments
       /\ output' = [applied |-> TRUE,
                     value |-> syncComments(output.value,
                                            buildCommentBlocks(comments),
                                            atEnd)]
  /\ UNCHANGED <<pages, settings, phase, run, syncInProgress, inv, sched,
                 settingsChanged>>

\* The user writes a note under the block, between two runs.
UserAddsNote ==
  /\ Cardinality({i \in 1..Len(output.value) :
                    output.value[i] = NoteChild}) < MaxNotes
  /\ output' = [applied |-> FALSE, value |-> Append(output.value, NoteChild)]
  /\ UNCHANGED <<pages, settings, phase, run, syncInProgress, inv, sched,
                 settingsChanged, input>>

NextComments == ProcessComments \/ UserAddsNote

SpecComments == InitComments /\ [][NextComments]_vars

\* constants.ts:20, TodoistStatus, in the order of its declaration.
Statuses == <<"active", "completed", "deleted">>
StatusSet == {Statuses[k] : k \in 1..Len(Statuses)}

\* The aliases a user can store (settings.ts:243-249: trimmed and never
\* empty), equal ones and names of statuses included, and the texts a
\* todoist-status line can hold.
AliasTexts == {"todo", "done", "gone", "Completed", "deleted"}
StoredAliases == [active : AliasTexts, completed : AliasTexts,
                  deleted : AliasTexts]
StatusTexts == AliasTexts \cup {"Active", "later"}

InitStatus ==
  /\ InitState
  /\ input \in [value : StatusTexts, aliases : StoredAliases]
  /\ output = [applied |-> FALSE,
               value |-> [decoded |-> "",
                          roundTrip |-> [st \in StatusSet |-> ""]]]

\* constants.ts:34-73: the value is decoded, and every status is encoded
\* and decoded again, under the aliases of the input.
ApplyStatus ==
  /\ ~output.applied
  /\ output' =
       [applied |-> TRUE,
        value |-> [decoded |-> aliasToStatus(input.value, input.aliases),
                   roundTrip |->
                     [st \in StatusSet |->
                        aliasToStatus(statusToAlias(st, input.aliases),
                                      input.aliases)]]]
  /\ UNCHANGED <<pages, settings, phase, run, syncInProgress, inv, sched,
                 settingsChanged, input>>

NextStatus == ApplyStatus

SpecStatus == InitStatus /\ [][NextStatus]_vars

(* ---------- src/unnamed/part_004: fetchTaskComments, a call ----------- *)
\* input is [taskIds, options]: taskIds a list of ids, each received as a
\* number or as a string, options.retryLimit given or absent.
\* output.value is the call: its position, its locals queue, attempts and
\* map, and what the remote has seen of it (requests counts the calls of
\* fetchPaginated per task, inflight holds those not yet answered,
\* answered the tasks whose request succeeded).
IdForms == [id : TaskIds, idIsText : BOOLEAN]
RetryOptions ==
  {[given |-> FALSE, retryLimit |-> 0]}
    \cup [given : {TRUE}, retryLimit : (0 - 1)..MaxRetryLimit]
FetchCommentsInputs ==
  [taskIds : SeqsUpTo(IdForms, MaxListLen), options : RetryOptions]

\* part_004:163, Math.max(0, options.retryLimit ?? 1)
retryLimitOf(options) ==
  LET given == IF options.given THEN options.retryLimit ELSE 1
  IN IF given > 0 THEN given ELSE 0

\* Mutation of idsToFetch: the ids are not deduplicated.
idsToFetchWithDuplicates(taskIds) ==
  [k \in 1..Len(taskIds) |-> taskIds[k].id]

\* part_004:164-166: String(id) of every id, the first occurrence of each
\* string kept.  The string of an id is written as its number.
idsToFetch(taskIds) ==
  LET first == {k \in 1..Len(taskIds) :
                  \A j \in 1..(k - 1) : taskIds[j].id # taskIds[k].id}
      Nth(n) == CHOOSE k \in first :
                  Cardinality({j \in first : j <= k}) = n
  IN [n \in 1..Cardinality(first) |-> taskIds[Nth(n)].id]

\* What the remote holds for a task: raw comments, id 0 standing for a
\* comment that comes without id.
RawComments(taskId) ==
  IF taskId = 1
  THEN <<[id |-> 1, task_id |-> 0, content |-> "  Buy   milk ",
          posted_at |-> DateA],
         [id |-> 0, task_id |-> 1, content |-> "no id", posted_at |-> ""]>>
  ELSE <<[id |-> 2, task_id |-> taskId, content |-> "First draft",
          posted_at |-> ""]>>

\* part_004:237-256; undefined is the empty sequence, a comment a
\* sequence of one.
sanitizeComment(comment, fallbackTaskId) ==
  IF comment.id = 0 THEN <<>>
  ELSE <<[id |-> comment.id,
          task_id |-> IF comment.task_id = 0 THEN fallbackTaskId
                      ELSE comment.task_id,
          content |-> safeText(comment.content),
          posted_at |-> comment.posted_at]>>

\* part_004:184-186
RECURSIVE Sanitized(_, _)
Sanitized(comments, taskId) ==
  IF comments = <<>> THEN <<>>
  ELSE sanitizeComment(Head(comments), taskId)
         \o Sanitized(Tail(comments), taskId)

NoEntry == [set |-> FALSE, comments |-> <<>>]
IdleFetch ==
  [pc |-> "start", queue |-> <<>>, taskId |-> 0,
   attempts |-> [t \in TaskIds |-> 0],
   map |-> [t \in TaskIds |-> NoEntry],
   requests |-> [t \in TaskIds |-> 0],
   inflight |-> {}, answered |-> {}]

InitFetchComments ==
  /\ InitState
  /\ input \in FetchCommentsInputs
  /\ output = [applied |-> FALSE, value |-> IdleFetch]

Call == output.value
SetCall(c) ==
  /\ output' = [applied |-> c.pc = "returned", value |-> c]
  /\ UNCHANGED <<pages, settings, phase, run, syncInProgress, inv, sched,
                 settingsChanged, input>>

\* part_004:158-168: the call is made.
FetchCommentsStarts ==
  /\ Call.pc = "start"
  /\ SetCall(IF Len(input.taskIds) = 0
             THEN [Call EXCEPT !.pc = "returned"]
             ELSE [Call EXCEPT !.pc = "loop",
                               !.queue = idsToFetch(input.taskIds)])

\* part_004:170-183: the head of the queue is taken and fetchPaginated is
\* called for it and awaited.
FetchCommentsRequests ==
  /\ Call.pc = "loop"
  /\ Len(Call.queue) > 0
  /\ Call.requests[Head(Call.queue)] <= MaxRetryLimit + 1
  /\ SetCall([Call EXCEPT !.pc = "await",
                          !.taskId = Head(Call.queue),
                          !.queue = Tail(Call.queue),
                          !.requests[Head(Call.queue)] = @ + 1,
                          !.inflight = @ \cup {Head(Call.queue)}])

\* part_004:184-188: fetchPaginated resolves.
FetchCommentsAnswered ==
  /\ Call.pc = "await"
  /\ SetCall([Call EXCEPT
               !.pc = "loop",
               !.inflight = @ \ {Call.taskId},
               !.answered = @ \cup {Call.taskId},
               !.map[Call.taskId] =
                 [set |-> TRUE,
                  comments |-> Sanitized(RawComments(Call.taskId),
                                         Call.taskId)]])

\* Mutation of AfterRetries: the error of the last attempt is thrown.
AfterRetriesThrows(c) == [c EXCEPT !.pc = "thrown"]

\* part_004:195-201: the retry budget is spent; the error is logged and
\* the loop goes on.
AfterRetries(c) == c

\* part_004:189-201: fetchPaginated rejects.
FetchCommentsFails ==
  /\ Call.pc = "await"
  /\ LET nextAttempts == Call.attempts[Call.taskId] + 1
         c == [Call EXCEPT !.pc = "loop",
                           !.inflight = @ \ {Call.taskId},
                           !.attempts[Call.taskId] = nextAttempts]
     IN SetCall(IF nextAttempts <= retryLimitOf(input.options)
                THEN [c EXCEPT !.queue = Append(@, Call.taskId)]
                ELSE AfterRetries(c))

\* part_004:170 and 204: the queue is empty, the map is returned.
FetchCommentsReturns ==
  /\ Call.pc = "loop"
  /\ Len(Call.queue) = 0
  /\ SetCall([Call EXCEPT !.pc = "returned"])

NextFetchComments ==
  \/ FetchCommentsStarts \/ FetchCommentsRequests
  \/ FetchCommentsAnswered \/ FetchCommentsFails
  \/ FetchCommentsReturns

\* Every request is answered or fails in the end, and the steps of the
\* loop between two awaits are taken.
SpecFetchComments ==
  InitFetchComments /\ [][NextFetchComments]_vars
    /\ WF_vars(NextFetchComments)

SpecMerge == InitMerge /\ [][NextMerge]_vars

(* ------------- src/src/main.ts: the calls of syncTodoist ------------- *)
\* A call of syncTodoist is at "none" (not made, or returned), or suspended
\* at one of its awaits:
\*   warnBusy    main.ts:179   showMsg("Sync already in progress")
\*   warnToken   main.ts:187   showMsg("Configure the Todoist token ...")
\*   msgSyncing  main.ts:197   showMsg("Syncing Todoist data...")
\*   fetch       main.ts:201   Promise.all of the fetches
\*   write       main.ts:211   writeBlocks
\*   msgDone     main.ts:214   showMsg("Todoist backup synced ...")
\*   msgError    main.ts:224   showMsg("Failed to sync Todoist: ...")
Triggers == {"manual", "auto"}
RunningPcs == {"msgSyncing", "fetch", "write", "msgDone", "msgError"}
MessagePcs == {"warnBusy", "warnToken", "msgSyncing", "msgDone", "msgError"}

\* The call is between setting the guard and leaving the function.
Running(i) == inv[i].pc \in RunningPcs

At(i, pc, trigger) == [inv EXCEPT ![i] = [NoCall EXCEPT !.pc = pc,
                                                       !.trigger = trigger]]
Returned(i) == [inv EXCEPT ![i] = NoCall]

\* main.ts:221-224: the catch block is entered with the error thrown; the
\* pages received so far are kept for the record, the snapshot is not.
Caught(i, error) ==
  [inv EXCEPT ![i] = [NoCall EXCEPT !.pc = "msgError",
                                    !.trigger = inv[i].trigger,
                                    !.page = inv[i].page,
                                    !.error = error]]

\* Mutation of GuardHeld: the guard is not consulted.
GuardHeldNever == FALSE

\* main.ts:177
GuardHeld == syncInProgress

\* Mutation of TokenMissing: the token is not checked.
TokenMissingNever == FALSE

\* main.ts:185
TokenMissing == settings.token = ""

\* main.ts:520: the timer t fires; its callback clears the handle.
Fired(t) == [handle |-> NoTimer, timers |-> timers \ {t}]

\* main.ts:521-522: syncTodoist("auto") has returned to the timer callback,
\* which re-arms the timer; a manual call returns to the toolbar or the
\* command palette, a rejected call leaves the callback by exception.
ReturnsTo(trigger, resolved, s) ==
  IF trigger = "auto" /\ resolved
  THEN SetScheduler(scheduleAutoSync(s, settings.token))
  ELSE SetScheduler(s)

\* Mutation of CallWhileBusy: the warning is shown whatever the trigger.
CallWhileBusyWarnsAll(i) ==
  /\ inv[i].pc = "none"
  /\ GuardHeld
  /\ \E trigger \in Triggers :
       IF trigger = "manual"
       THEN /\ inv' = At(i, "warnBusy", trigger)
            /\ UNCHANGED sched
       ELSE \E t \in timers :
              /\ inv' = At(i, "warnBusy", trigger)
              /\ SetScheduler(Fired(t))
  /\ UNCHANGED <<pages, settings, phase, run, syncInProgress, settingsChanged,
                 pure>>

\* main.ts:177-182: a trigger arrives while the guard is held.  A manual
\* call awaits the warning; an automatic one, made by the timer callback,
\* returns at once.
CallWhileBusy(i) ==
  /\ inv[i].pc = "none"
  /\ GuardHeld
  /\ \E trigger \in Triggers :
       IF trigger = "manual"
       THEN /\ inv' = At(i, "warnBusy", trigger)
            /\ UNCHANGED sched
       ELSE \E t \in timers :
              /\ inv' = Returned(i)
              /\ ReturnsTo(trigger, TRUE, Fired(t))
  /\ UNCHANGED <<pages, settings, phase, run, syncInProgress, settingsChanged,
                 pure>>

\* main.ts:184-193: no token is configured.
CallWithoutToken(i) ==
  /\ inv[i].pc = "none"
  /\ ~GuardHeld
  /\ TokenMissing
  /\ \E trigger \in Triggers :
       IF trigger = "manual"
       THEN /\ inv' = At(i, "warnToken", trigger)
            /\ UNCHANGED sched
       ELSE \E t \in timers :
              /\ inv' = Returned(i)
              /\ ReturnsTo(trigger, TRUE, Fired(t))
  /\ UNCHANGED <<pages, settings, phase, run, syncInProgress, settingsChanged,
                 pure>>

\* main.ts:195-201: the guard is set; a manual call awaits the message
\* "Syncing Todoist data...", an automatic one enters the try block and
\* awaits the fetches.
CallStarts(i) ==
  /\ inv[i].pc = "none"
  /\ ~GuardHeld
  /\ ~TokenMissing
  /\ syncInProgress' = TRUE
  /\ \E trigger \in Triggers :
       IF trigger = "manual"
       THEN /\ inv' = At(i, "msgSyncing", trigger)
            /\ UNCHANGED sched
       ELSE \E t \in timers :
              /\ inv' = At(i, "fetch", trigger)
              /\ SetScheduler(Fired(t))
  /\ UNCHANGED <<pages, settings, phase, run, settingsChanged,
                 pure>>

\* logseq.UI.showMsg resolves.
MessageShown(i) ==
  /\ inv[i].pc \in MessagePcs
  /\ IF inv[i].pc = "msgSyncing"
     THEN \* main.ts:200-205: into the try block
          /\ inv' = At(i, "fetch", inv[i].trigger)
          /\ UNCHANGED <<syncInProgress, sched>>
     ELSE IF inv[i].pc \in {"msgDone", "msgError"}
     THEN \* main.ts:225-227: finally
          /\ inv' = Returned(i)
          /\ syncInProgress' = FALSE
          /\ ReturnsTo(inv[i].trigger, TRUE, Scheduler)
     ELSE \* main.ts:181 and 192: return
          /\ inv' = Returned(i)
          /\ UNCHANGED syncInProgress
          /\ ReturnsTo(inv[i].trigger, TRUE, Scheduler)
  /\ UNCHANGED <<pages, settings, phase, run, settingsChanged,
                 pure>>

\* logseq.UI.showMsg rejects.
MessageFails(i) ==
  /\ inv[i].pc \in MessagePcs
  /\ IF inv[i].pc = "msgDone"
     THEN \* main.ts:221-224: inside the try block, the catch block runs
          /\ inv' = Caught(i, "ui")
          /\ UNCHANGED <<syncInProgress, sched>>
     ELSE IF inv[i].pc = "msgError"
     THEN \* main.ts:225-227: the finally block runs, the call rejects
          /\ inv' = Returned(i)
          /\ syncInProgress' = FALSE
          /\ ReturnsTo(inv[i].trigger, FALSE, Scheduler)
     ELSE \* main.ts:179, 187 and 197 are outside the try block: the call
          \* rejects and nothing else of it runs
          /\ inv' = Returned(i)
          /\ UNCHANGED syncInProgress
          /\ ReturnsTo(inv[i].trigger, FALSE, Scheduler)
  /\ UNCHANGED <<pages, settings, phase, run, settingsChanged,
                 pure>>

\* part_004:101-144, the loop of fetchPaginated: a page of a listing
\* arrives with a cursor for the next one.  The three listings of
\* main.ts:201-205 are awaited together and are taken as one sequence of
\* pages.
FetchPage(i) ==
  /\ inv[i].pc = "fetch"
  /\ inv[i].page + 1 < MaxPages
  /\ inv' = [inv EXCEPT ![i].page = @ + 1]
  /\ UNCHANGED <<pages, settings, phase, run, syncInProgress, sched,
                 settingsChanged,
                 pure>>

\* main.ts:201-211: the last page arrives without a cursor and the fetches
\* resolve with a snapshot; the blocks are built and writeBlocks is called.
FetchDone(i) ==
  /\ inv[i].pc = "fetch"
  /\ \E snap \in SnapshotsOf(RunShapes) :
       inv' = [inv EXCEPT ![i] = [NoCall EXCEPT !.pc = "write",
                                               !.trigger = inv[i].trigger,
                                               !.snap = snap]]
  /\ UNCHANGED <<pages, settings, phase, run, syncInProgress, sched,
                 settingsChanged,
                 pure>>

\* Mutation of FetchFails: the items of the pages received before the
\* failure are handed to writeBlocks.
FetchFailsKeepsPartial(i) ==
  /\ inv[i].pc = "fetch"
  /\ \E snap \in SnapshotsOf(RunShapes) :
       inv' = [inv EXCEPT ![i].pc = "write", ![i].snap = snap,
                          ![i].error = "http"]
  /\ UNCHANGED <<pages, settings, phase, run, syncInProgress, sched,
                 settingsChanged,
                 pure>>

\* part_004:133-135 and main.ts:221-224: the response to the request of a
\* page, the first or a later one, is not a success; fetchPaginated throws
\* and the catch block runs.
FetchFails(i) ==
  /\ inv[i].pc = "fetch"
  /\ inv' = Caught(i, "http")
  /\ UNCHANGED <<pages, settings, phase, run, syncInProgress, sched,
                 settingsChanged,
                 pure>>

\* main.ts:211-220 and 225-227: writeBlocks resolves.  A manual call awaits
\* the success message; an automatic one logs, resets the guard and
\* returns.
WriteDone(i) ==
  /\ inv[i].pc = "write"
  /\ pages' = writeBlocks(pages,
                          DesiredTasks(inv[i].snap, settings.excludePatterns),
                          settings.statusAliases).pages
  /\ IF inv[i].trigger = "manual"
     THEN /\ inv' = At(i, "msgDone", inv[i].trigger)
          /\ UNCHANGED <<syncInProgress, sched>>
     ELSE /\ inv' = Returned(i)
          /\ syncInProgress' = FALSE
          /\ ReturnsTo(inv[i].trigger, TRUE, Scheduler)
  /\ UNCHANGED <<settings, phase, run, settingsChanged,
                 pure>>

\* main.ts:221-224: writeBlocks throws: a page of the run can neither be
\* found nor created (blocks.ts:293-295).
WriteFails(i) ==
  /\ inv[i].pc = "write"
  /\ LET tasks == DesiredTasks(inv[i].snap, settings.excludePatterns)
     IN \E k \in 1..Len(PagesOf(tasks)) :
          /\ pages[PagesOf(tasks)[k]] = <<>>
          /\ pages' = writeBlocksFailing(pages, tasks,
                                         settings.statusAliases, k).pages
  /\ inv' = Caught(i, "page")
  /\ UNCHANGED <<settings, phase, run, syncInProgress, sched, settingsChanged,
                 pure>>

\* The user sets or clears the token in the settings panel; the host will
\* call the callback of onSettingsChanged.
TokenChanged ==
  /\ settings' = [settings EXCEPT
                    !.token = IF settings.token = "" THEN "token" ELSE ""]
  /\ settingsChanged' = TRUE
  /\ UNCHANGED <<pages, phase, run, syncInProgress, inv, sched,
                 pure>>

\* main.ts:158-160: the callback of onSettingsChanged.
SettingsChanged ==
  /\ settingsChanged
  /\ settingsChanged' = FALSE
  /\ SetScheduler(scheduleAutoSync(Scheduler, settings.token))
  /\ UNCHANGED <<pages, settings, phase, run, syncInProgress, inv,
                 pure>>

\* main.ts:165-174: beforeunload.
Unload ==
  /\ SetScheduler(cancelScheduledSync(Scheduler))
  /\ UNCHANGED <<pages, settings, phase, run, syncInProgress, inv,
                 settingsChanged,
                 pure>>

\* Triggers arrive at any time, whatever the calls in progress are
\* awaiting.
NextRun ==
  \/ \E i \in Invocations :
       \/ CallWhileBusy(i) \/ CallWithoutToken(i) \/ CallStarts(i)
       \/ MessageShown(i) \/ MessageFails(i)
       \/ FetchPage(i) \/ FetchDone(i) \/ FetchFails(i)
       \/ WriteDone(i) \/ WriteFails(i)
  \/ TokenChanged \/ SettingsChanged \/ Unload

SpecRun == Init /\ [][NextRun]_vars

(* ---------------------------- properties ------------------------------ *)
\* The external task id a block is for, 0 for a block without todoist-id.
TaskOfBlock(content) == extractTodoistId(content).n

\* The positions of the top-level blocks of a task in a page.
BlocksOf(pgs, p, id) ==
  {i \in 1..Len(pgs[p]) : TaskOfBlock(pgs[p][i]) = id}

\* The block is marked completed: its status resolves to completed, or it
\* carries a todoist-completed property.
MarkedCompleted(content, statusAliases) ==
  \/ extractTodoistStatus(content, statusAliases) = "completed"
  \/ hasCompletedProperty(content)

\* The value of the first line of a key, "" when the block has none.
PropertyValue(content, key) ==
  IF FirstMatch(content, key) = 0 THEN ""
  ELSE content[FirstMatch(content, key)].v

DesiredIds(r) == {r.tasks[k].id : k \in 1..Len(r.tasks)}
DesiredPages(r) == {resolveTaskPageName(r.tasks[k]) : k \in 1..Len(r.tasks)}
RemovedBy(r) == r.ops.removedByPass \cup r.ops.removedByCleanup

\* A step that is one run of the reconciliation.
SyncStep == phase = "idle" /\ phase' = "done"

\* C1: no run removes, in the removal pass of a page or in the cleanup of
\* the other pages, a top-level block that is marked completed (status
\* resolving to completed, or a todoist-completed property).
C1_CompletedBlockNeverRemoved ==
  \A b \in RemovedBy(run) : ~MarkedCompleted(b.content, run.aliases)

C3_CompletedKeepsDue ==
  [][SyncStep =>
       \A k \in 1..Len(run'.tasks) : \A c1 \in PageNames :
         \A j \in BlocksOf(pages, c1, run'.tasks[k].id) :
           LET task == run'.tasks[k]
               done == formatCompletedDate(CompletionStamp(task))
               d == extractTodoistDue(pages[c1][j])
           IN (/\ extractTodoistStatus(pages[c1][j], run'.aliases) = "active"
               /\ d # ""
               /\ task.completed /\ done # "" /\ formatDue(task.due) = "")
              => \E i \in BlocksOf(pages', resolveTaskPageName(task), task.id) :
                   LET after == pages'[resolveTaskPageName(task)][i]
                   IN /\ extractTodoistDue(after) = d
                      /\ PropertyValue(after, TODOIST_COMPLETED_PROPERTY) = done
                      /\ PropertyValue(after, TODOIST_STATUS_PROPERTY)
                           = run'.aliases.completed]_vars

\* C4: a run that overwrites a block whose content has a non-empty
\* todoist-due leaves the block with a non-empty todoist-due.
C4_DueNeverRegresses ==
  \A u \in run.ops.updated :
    extractTodoistDue(u.before) # "" => extractTodoistDue(u.after) # ""

\* A run overwrote a block that had a due date with the content of a task
\* reported without due information.
C4_Witness ==
  /\ phase = "done"
  /\ \E u \in run.ops.updated : \E k \in 1..Len(run.tasks) :
       /\ TaskOfBlock(u.after) = run.tasks[k].id
       /\ formatDue(run.tasks[k].due) = ""
       /\ extractTodoistDue(u.before) = DateA
       /\ extractTodoistDue(u.after) = DateA

\* C5: no page holds two top-level blocks for the same external task id.
C5_OneBlockPerTaskAndPage ==
  \A p \in PageNames : \A i, j \in 1..Len(pages[p]) :
    (i # j /\ TaskOfBlock(pages[p][i]) # 0)
      => TaskOfBlock(pages[p][i]) # TaskOfBlock(pages[p][j])

\* C6: after a run every desired task has, in the page resolved for it, a
\* top-level block with its id, url and title, and the blocks of two
\* desired tasks are different blocks.
C6_EveryDesiredTaskHasItsBlock ==
  phase = "done" =>
    \A k \in 1..Len(run.tasks) :
      LET task == run.tasks[k]
          p == resolveTaskPageName(task)
      IN /\ \E i \in 1..Len(pages[p]) :
              /\ extractTodoistId(pages[p][i]) = LinkText(task.id, TaskUrl(task))
              /\ pages[p][i][1].t = safeLinkText(safeText(task.content))
         /\ \A k2 \in 1..Len(run.tasks) :
              k2 # k => BlocksOf(pages, p, task.id)
                          \cap BlocksOf(pages, p, run.tasks[k2].id) = {}

\* Two tasks with the same title and due date are in one page after a run,
\* each with its block.
C6_Witness ==
  /\ phase = "done"
  /\ Len(run.tasks) = 2
  /\ run.tasks[1].content = run.tasks[2].content
  /\ run.tasks[1].due = run.tasks[2].due
  /\ ~run.tasks[1].completed /\ ~run.tasks[2].completed
  /\ BlocksOf(pages, DateA, run.tasks[1].id) # {}
  /\ BlocksOf(pages, DateA, run.tasks[2].id) # {}

C8_CleanupKeepsCurrentTasks ==
  \A b \in run.ops.removedByCleanup :
    /\ TaskOfBlock(b.content) \notin DesiredIds(run)
    /\ ~MarkedCompleted(b.content, run.aliases)

\* C9: at most one call of syncTodoist is between setting the guard and
\* leaving the function, so that the fetches and store operations of two
\* runs never interleave.
C9_AtMostOneRunning ==
  Cardinality({i \in Invocations : Running(i)}) <= 1

\* A manual trigger arrived while another call was awaiting writeBlocks,
\* and was turned away.
C9_Witness ==
  \E i, j \in Invocations :
    /\ inv[i].pc = "write"
    /\ inv[j].pc = "warnBusy"
    /\ syncInProgress

\* C10: a call that has set the guard resets it when it leaves the
\* function, by return or by exception.
C10_GuardResetWhenRunEnds ==
  [][\A i \in Invocations :
       (Running(i) /\ ~Running(i)') => ~syncInProgress']_vars

\* C11: while the guard is held no call that is not already running starts
\* a run, at once or after its warning; only a manual call is shown the
\* warning "Sync already in progress", an automatic one is shown nothing;
\* and a step that turns a trigger away changes neither the calls that are
\* running, nor the store, nor the guard.
C11_BusyTriggerStartsNoRun ==
  [][/\ \A i \in Invocations :
          /\ (syncInProgress /\ ~Running(i)) => ~Running(i)'
          /\ inv'[i].pc = "warnBusy" => inv'[i].trigger = "manual"
          /\ inv[i].pc = "warnBusy" => inv'[i].pc \in {"warnBusy", "none"}
     /\ (syncInProgress /\ \A j \in Invocations : Running(j) => inv'[j] = inv[j])
          => /\ pages' = pages
             /\ syncInProgress']_vars

\* A manual trigger arrived while an automatic run was awaiting its
\* fetches, and is shown the warning.
C11_Witness ==
  \E i, j \in Invocations :
    /\ inv[i].pc = "warnBusy" /\ inv[i].trigger = "manual"
    /\ inv[j].pc = "fetch" /\ inv[j].trigger = "auto"
    /\ syncInProgress

\* C12: a call made by the automatic trigger is never awaiting a message to
\* the user, whether its run succeeds or fails.
C12_AutoRunShowsNoMessage ==
  \A i \in Invocations :
    inv[i].trigger = "auto" => inv[i].pc \notin MessagePcs

\* C13: with no token configured a trigger starts no run, sets no guard,
\* makes no request and changes no block; a manual call is shown the
\* warning to configure the token and returns after it, an automatic one is
\* shown nothing; and whatever runs scheduleAutoSync or cancelScheduledSync
\* then leaves no timer armed.
C13_NoTokenNoRun ==
  [][/\ \A i \in Invocations :
          /\ (settings.token = "" /\ ~Running(i)) => ~Running(i)'
          /\ inv'[i].pc = "warnToken" => inv'[i].trigger = "manual"
          /\ inv[i].pc = "warnToken" => inv'[i].pc \in {"warnToken", "none"}
     /\ (settings.token = "" /\ \A j \in Invocations : Running(j) => inv'[j] = inv[j])
          => /\ pages' = pages
             /\ syncInProgress' = syncInProgress
     /\ (settings.token = "" /\ settings' = settings /\ sched' # sched)
          => /\ timers' = {}
             /\ scheduledSync' = NoTimer]_vars

\* The token was cleared and the callback of the settings change has
\* disarmed the timer; a manual trigger is shown the warning, the guard is
\* not held.
C13_Witness ==
  \E i \in Invocations :
    /\ inv[i].pc = "warnToken"
    /\ settings.token = ""
    /\ ~settingsChanged
    /\ timers = {}
    /\ ~syncInProgress

\* C14: when the response to a request of the fetches is not a success, on
\* the first page or a later one, the call goes to the catch block without
\* a snapshot and the store is as it was; a call that has caught such an
\* error only shows "Failed to sync" and returns, and the store is changed
\* only by a call whose fetches all succeeded.
C14_FailedFetchWritesNothing ==
  [][/\ \A i \in Invocations :
          /\ (inv[i].pc = "fetch" /\ inv'[i].error = "http")
               => /\ inv'[i].pc = "msgError"
                  /\ inv'[i].snap = NoSnap
                  /\ pages' = pages
          /\ inv[i].error = "http"
               => /\ inv[i].pc = "msgError"
                  /\ inv'[i].pc \in {"msgError", "none"}
     /\ pages' # pages
          => \E j \in Invocations : inv[j].pc = "write" /\ inv[j].error = ""]_vars

\* A manual run received one page, the request of the next one failed, and
\* the call awaits the error message; an earlier run had written blocks.
C14_Witness ==
  \E i \in Invocations :
    /\ inv[i].pc = "msgError"
    /\ inv[i].trigger = "manual"
    /\ inv[i].error = "http"
    /\ inv[i].page = 1
    /\ \E p \in PageNames : pages[p] # <<>>

\* C16: at most one timer of the scheduler is pending, and it is the one
\* the handle scheduledSync names; the handle is null when none is pending.
C16_AtMostOneTimerPending ==
  /\ Cardinality(timers) <= 1
  /\ timers = IF scheduledSync = NoTimer THEN {} ELSE {scheduledSync}

\* A settings change armed a timer while the run started by the previous
\* timer is still in progress.
C16_Witness ==
  \E i \in Invocations :
    /\ inv[i].trigger = "auto"
    /\ inv[i].pc = "write"
    /\ timers # {}
    /\ scheduledSync # NoTimer

\* The position of a page in the pages of a run, 0 when it is not one.
PageIndex(r, p) ==
  IF \E k \in 1..Len(PagesOf(r.tasks)) : PagesOf(r.tasks)[k] = p
  THEN CHOOSE k \in 1..Len(PagesOf(r.tasks)) : PagesOf(r.tasks)[k] = p
  ELSE 0

\* C15: when a page of the run can neither be found nor created, the run
\* changes no block of that page, of the pages that come after it in the
\* run, or of the pages the cleanup would visit; the pages before it are
\* written once, as a run without failure writes them.
C15_PageFailureStopsTheRun ==
  [][(SyncStep /\ run'.failedPage # "") =>
       LET k == PageIndex(run', run'.failedPage)
           whole == writeBlocks(pages, run'.tasks, run'.aliases).pages
       IN /\ k > 0
          /\ run'.ops.removedByCleanup = {}
          /\ \A p \in PageNames :
               IF PageIndex(run', p) > 0 /\ PageIndex(run', p) < k
               THEN pages'[p] = whole[p]
               ELSE pages'[p] = pages[p]
          /\ \A b \in run'.ops.created \cup run'.ops.removedByPass :
               PageIndex(run', b.page) < k
          /\ \A u \in run'.ops.updated : PageIndex(run', u.page) < k]_vars

\* The second page of a run could not be created: the first page has been
\* written, and a page that is not in the run still holds a block that the
\* cleanup would have removed.
C15_Witness ==
  /\ phase = "done"
  /\ PageIndex(run, run.failedPage) = 2
  /\ run.ops.created # {}
  /\ pages[run.failedPage] = <<>>
  /\ cleanupObsoletePages([pages |-> pages, ops |-> NoOps], run.tasks,
                          run.aliases).pages # pages

\* The keys String(id) of the records of a list.
KeysOf(list) == {list[k].id : k \in 1..Len(list)}

\* C17: mergeBackupTasks returns exactly one task for each distinct
\* String(id) of its two lists, the number 123 and the string "123" being
\* one key, and no other task; a task whose id is in the active list is
\* returned with status active, completed false and no completion
\* timestamp; a task whose id is only in the completed list is returned
\* with status completed.
C17_MergeOnePerKey ==
  output.applied =>
    LET out == output.value
    IN /\ KeysOf(out) = KeysOf(input.active) \cup KeysOf(input.completed)
       /\ \A j, k \in 1..Len(out) : out[j].id = out[k].id => j = k
       /\ \A k \in 1..Len(out) :
            IF out[k].id \in KeysOf(input.active)
            THEN /\ out[k].status = "active"
                 /\ ~out[k].completed
                 /\ out[k].completed_at = ""
                 /\ out[k].completed_date = ""
            ELSE /\ out[k].status = "completed"
                 /\ out[k].completed

\* The completed list holds id 1 as a number and the active list holds it
\* as a string; the merge returned the one active record, and a record for
\* id 2 that is only in the completed list.
C17_Witness ==
  /\ output.applied
  /\ \E j \in 1..Len(input.completed) : \E k \in 1..Len(input.active) :
       /\ input.completed[j].id = 1 /\ ~input.completed[j].idIsText
       /\ input.active[k].id = 1 /\ input.active[k].idIsText
  /\ \E j \in 1..Len(input.completed) : input.completed[j].id = 2
  /\ Len(output.value) = 2
  /\ \E k \in 1..2 : output.value[k].id = 1 /\ output.value[k].status = "active"
  /\ \E k \in 1..2 : output.value[k].id = 2 /\ output.value[k].status = "completed"

\* The day of the completion timestamp of a completed task, "" when the
\* task is not completed or the timestamp is missing or does not parse.
CompletionDay(task) ==
  IF task.completed THEN ParseToIsoDay(CompletionStamp(task)) ELSE ""

\* C18: resolveTaskPageName places a task on the day of its completion
\* when it is completed and the timestamp parses; otherwise on its due
\* date when it has one; otherwise on fallbackDue when that is shaped
\* YYYY-MM-DD; otherwise in Backlog.  A completed task whose timestamp is
\* missing or does not parse is placed as its due date and fallback say.
C18_PageOfATask ==
  output.applied =>
    LET day == CompletionDay(input)
        due == formatDue(input.due)
        fb == input.fallbackDue
    IN /\ day # "" => output.value = day
       /\ (day = "" /\ due # "") => output.value = due
       /\ (day = "" /\ due = "" /\ fb \in Dates) => output.value = fb
       /\ (day = "" /\ due = "" /\ fb \notin Dates)
            => output.value = BACKLOG_PAGE_SUFFIX

\* A completed task whose timestamp does not parse and whose due date is
\* 2025-03-01 was placed on that day.
C18_Witness ==
  /\ output.applied
  /\ input.completed
  /\ input.completed_date = BadStamp
  /\ input.due = DueOn(DateA)
  /\ output.value = DateA

\* The positions of the comment wrappers among the children of a block.
WrappersOf(children) ==
  {i \in 1..Len(children) : isCommentWrapper(children[i].content)}

\* The ids of the comments under a wrapper, and of a list of comments, as
\* bags.
IdsUnder(wrapper) ==
  [n \in {c.id : c \in Comments} |->
     Cardinality({k \in 1..Len(wrapper.children) :
                    PropertyValue(wrapper.children[k].content,
                                  TODOIST_COMMENT_ID_PROPERTY) = ToString(n)})]
IdsOf(comments) ==
  [n \in {c.id : c \in Comments} |->
     Cardinality({k \in 1..Len(comments) : comments[k].id = n})]

\* C20: right after a task is processed its block has exactly one
\* comment-wrapper child, with one child for each comment that came with
\* the task, when the task came with comments, and no comment-wrapper
\* child when it came with none, whatever wrappers the block had before.
C20_OneCommentWrapper ==
  output.applied =>
    IF input # <<>>
    THEN /\ Cardinality(WrappersOf(output.value)) = 1
         /\ \A i \in WrappersOf(output.value) :
              /\ Len(output.value[i].children) = Len(input)
              /\ IdsUnder(output.value[i]) = IdsOf(input)
    ELSE WrappersOf(output.value) = {}

\* The block has two notes of the user; the task was processed with two
\* comments: the notes are still there, beside one wrapper with two
\* children.
C20_Witness ==
  /\ output.applied
  /\ Len(input) = 2
  /\ input[1].id # input[2].id
  /\ Len(output.value) = 3
  /\ Cardinality({i \in 1..3 : output.value[i] = NoteChild}) = 2
  /\ \E i \in WrappersOf(output.value) : Len(output.value[i].children) = 2

\* The positions of the placeholder blocks of a page.
PlaceholdersOf(pgs, p) ==
  {i \in 1..Len(pgs[p]) : pgs[p][i] = PlaceholderBlock}

\* C19: when the run has no task to write and no page holds a block, then
\* after the run one page holds exactly one placeholder block "No tasks
\* found.", and no other page holds one.
C19_EmptySyncInsertsPlaceholder ==
  [][(SyncStep /\ run'.tasks = <<>> /\ \A p \in PageNames : pages[p] = <<>>)
       => \E p \in PageNames :
            /\ Cardinality(PlaceholdersOf(pages', p)) = 1
            /\ \A q \in PageNames \ {p} : PlaceholdersOf(pages', q) = {}]_vars

\* C21: a call of fetchTaskComments returns, whatever requests fail; no
\* task is requested more than retryLimit + 1 times, an id that is several
\* times in the input (as a number or as a string) counting as one task;
\* only tasks of the input are requested; and at most one request is in
\* flight.
C21_CommentFetchTerminates ==
  /\ [](/\ \A t \in TaskIds :
             /\ Call.requests[t] <= retryLimitOf(input.options) + 1
             /\ Call.requests[t] > 0
                  => \E k \in 1..Len(input.taskIds) : input.taskIds[k].id = t
        /\ Cardinality(Call.inflight) <= 1)
  /\ <>(Call.pc = "returned")

\* Task 1 is twice in the input, as a number and as a string; with
\* retryLimit 2 every request for it failed and the call returned after
\* three of them.
C21_Witness ==
  /\ Call.pc = "returned"
  /\ Len(input.taskIds) = 2
  /\ input.taskIds[1].id = 1 /\ ~input.taskIds[1].idIsText
  /\ input.taskIds[2].id = 1 /\ input.taskIds[2].idIsText
  /\ input.options = [given |-> TRUE, retryLimit |-> 2]
  /\ Call.requests[1] = 3
  /\ Call.answered = {}

\* C22: fetchTaskComments never ends by an exception; when it returns, the
\* map holds the sanitized comments of every task one of whose requests
\* succeeded, and has no entry for the tasks whose requests all failed.
C22_FailedTaskHasNoComments ==
  /\ Call.pc # "thrown"
  /\ Call.pc = "returned" =>
       \A t \in TaskIds :
         IF t \in Call.answered
         THEN Call.map[t] = [set |-> TRUE,
                             comments |-> Sanitized(RawComments(t), t)]
         ELSE Call.map[t] = NoEntry

\* The requests of task 1 failed twice with the default retry limit, the
\* request of task 2 succeeded after a failure; the call returned with
\* the comments of task 2 only.
C22_Witness ==
  /\ Call.pc = "returned"
  /\ ~input.options.given
  /\ Call.requests[1] = 2 /\ 1 \notin Call.answered
  /\ Call.requests[2] = 2 /\ 2 \in Call.answered
  /\ Call.map[1] = NoEntry
  /\ Call.map[2].set /\ Len(Call.map[2].comments) = 1

\* C23: for every task of a run, the block encoded for it decodes to the
\* task's own values: the id extracted is String(task.id), the status
\* decoded under the aliases of the run is the task's status, and the due
\* decoded is the task's normalized due date.
C23_DecodeOfEncode ==
  \A k \in 1..Len(run.tasks) :
    LET task == run.tasks[k]
        content == blockContent(task, run.aliases)
    IN /\ extractTodoistId(content) = StringOfId(task.id)
       /\ extractTodoistStatus(content, run.aliases) = task.status
       /\ extractTodoistDue(content) = formatDue(task.due)

\* The aliases are pairwise distinct.
AliasesDistinct(aliases) ==
  \A a, b \in StatusSet : a # b => aliases[a] # aliases[b]

\* As C24 states it: no alias is the canonical name of another status.
NoAliasIsAnotherName(aliases) ==
  \A a, b \in StatusSet : a # b => aliases[a] # b

\* No alias is, in any letter case, the canonical name of another status.
NoAliasReadsAsAnotherName(aliases) ==
  \A a, b \in StatusSet : a # b => toLowerCase(aliases[a]) # b

\* The text is neither a canonical name in some letter case nor an alias.
OtherText(value, aliases) ==
  /\ toLowerCase(value) \notin StatusSet
  /\ \A a \in StatusSet : value # aliases[a]

\* C24 as stated: a canonical name in any letter case decodes to its
\* status, the configured alias of a status decodes to that status, any
\* other text decodes to no status; and when the aliases are pairwise
\* distinct and none equals the canonical name of another status, every
\* status encoded then decoded is itself.
C24_StatusDecodes ==
  output.applied =>
    /\ \A a \in StatusSet :
         /\ toLowerCase(input.value) = a => output.value.decoded = a
         /\ input.value = input.aliases[a] => output.value.decoded = a
    /\ OtherText(input.value, input.aliases) => output.value.decoded = ""
    /\ (AliasesDistinct(input.aliases) /\ NoAliasIsAnotherName(input.aliases))
         => \A a \in StatusSet : output.value.roundTrip[a] = a

\* C24 amended: a canonical name in any letter case decodes to its status
\* and a text that is neither a name nor an alias to no status; when the
\* aliases are pairwise distinct and none is, in any letter case, the
\* canonical name of another status, the alias of a status decodes to that
\* status and every status encoded then decoded is itself.
C24_StatusDecodesUnambiguous ==
  output.applied =>
    /\ \A a \in StatusSet :
         toLowerCase(input.value) = a => output.value.decoded = a
    /\ OtherText(input.value, input.aliases) => output.value.decoded = ""
    /\ (AliasesDistinct(input.aliases)
        /\ NoAliasReadsAsAnotherName(input.aliases))
         => \A a \in StatusSet :
              /\ input.value = input.aliases[a] => output.value.decoded = a
              /\ output.value.roundTrip[a] = a

\* Under the aliases todo, done, gone the text "done" was decoded to
\* completed, and the three statuses came back from their aliases.
C24_Witness ==
  /\ output.applied
  /\ input.aliases = AliasDefault
  /\ input.value = "done"
  /\ output.value.decoded = "completed"
  /\ \A a \in StatusSet : output.value.roundTrip[a] = a

\* C25: when several statuses are configured with the same alias, that
\* alias decodes to the last of them in the order active, completed,
\* deleted.
C25_LastCollidingStatusWins ==
  output.applied =>
    \A j, k \in 1..Len(Statuses) :
      (/\ j < k
       /\ input.aliases[Statuses[j]] = input.aliases[Statuses[k]]
       /\ input.value = input.aliases[Statuses[k]]
       /\ toLowerCase(input.value) \notin StatusSet
       /\ \A m \in (k + 1)..Len(Statuses) :
            input.aliases[Statuses[m]] # input.value)
      => output.value.decoded = Statuses[k]

(* ------------------- the order of the desired blocks ------------------ *)
\* Number.POSITIVE_INFINITY, above every timestamp of the model.
POSITIVE_INFINITY == 1000000

\* Date.parse on the date texts of the model, in minutes from DateA; -1
\* stands for NaN.
DateParse(s) ==
  CASE s = DateA -> 0
    [] s = DateB -> 5760
    [] s = StampB -> 6390
    [] OTHER -> -1

\* part_004:373-391
dueTimestamp(due) ==
  IF due = NoDue THEN POSITIVE_INFINITY
  ELSE IF due.datetime # "" /\ DateParse(due.datetime) >= 0
       THEN DateParse(due.datetime)
  ELSE IF due.date # "" /\ DateParse(due.date) >= 0 THEN DateParse(due.date)
  ELSE IF due.string # "" /\ DateParse(due.string) >= 0
       THEN DateParse(due.string)
  ELSE POSITIVE_INFINITY

\* String.prototype.localeCompare on the titles of the model.
localeCompare(a, b) ==
  LET rank(t) == CASE t = "Buy milk" -> 1
                   [] t = "Draft report" -> 2
                   [] OTHER -> 3
  IN IF rank(a) < rank(b) THEN -1 ELSE IF rank(a) > rank(b) THEN 1 ELSE 0

\* blocks.ts:426-437, the comparator of buildBlocks: negative when a sorts
\* before b.
compareTasks(a, b) ==
  IF a.completed # b.completed THEN (IF a.completed THEN 1 ELSE -1)
  ELSE IF dueTimestamp(a.due) # dueTimestamp(b.due)
       THEN (IF dueTimestamp(a.due) < dueTimestamp(b.due) THEN -1 ELSE 1)
  ELSE localeCompare(safeText(a.content), safeText(b.content))

\* The positions, in page p, of the blocks the run appended for a task.
AppendedFor(p, task) ==
  {i \in BlocksOf(pages, p, task.id) :
     BlockRef(p, pages[p][i]) \in run.ops.created}

\* C26: after a run, the blocks the run appended to a page stand in the
\* order of buildBlocks: when a task sorts before another one (active before
\* completed, then the earlier due timestamp with no due last, then the
\* title), its new block is above the new block of the other, whatever the
\* order in which the remote reported the two tasks.
C26_NewBlocksInSortedOrder ==
  phase = "done" =>
    \A a, b \in 1..Len(run.tasks) : \A p \in PageNames :
      compareTasks(run.tasks[a], run.tasks[b]) < 0 =>
        \A i \in AppendedFor(p, run.tasks[a]) :
          \A j \in AppendedFor(p, run.tasks[b]) : i < j

(* ------------------------- two consecutive runs ----------------------- *)
\* The due-related text of a block: the date of its title line and the
\* value of its todoist-due property.
DueText(content) == <<content[1].v, extractTodoistDue(content)>>

\* The due-related texts of the blocks of a task in the page resolved for
\* it.
DueTextsOf(pgs, task) ==
  {DueText(pgs[resolveTaskPageName(task)][i]) :
     i \in BlocksOf(pgs, resolveTaskPageName(task), task.id)}

\* The store after the run that follows the present one, when the remote
\* reports snap; nothing is edited between the two runs.
NextRunOver(snap) ==
  writeBlocks(pages, DesiredTasks(snap, settings.excludePatterns),
              settings.statusAliases).pages

\* C27: when a run has reported a task with due date D and the next run
\* reports it with the same due date, the due-related text of its block (the
\* date of the title line and the todoist-due property) is the same after
\* the two runs.
C27_DueTextIdempotent ==
  phase = "done" =>
    \A snap \in SnapshotsOf(DueShapes) : \A k \in 1..Len(run.tasks) :
      LET again == DesiredTasks(snap, settings.excludePatterns)
      IN \A j \in 1..Len(again) :
           (/\ again[j].id = run.tasks[k].id
            /\ formatDue(run.tasks[k].due) # ""
            /\ again[j].due = run.tasks[k].due)
           => DueTextsOf(NextRunOver(snap), again[j])
                = DueTextsOf(pages, run.tasks[k])

\* The same property for a task whose completion state is unchanged too:
\* its block is then in the same page in both runs.
C27_DueTextIdempotentSameStatus ==
  phase = "done" =>
    \A snap \in SnapshotsOf(DueShapes) : \A k \in 1..Len(run.tasks) :
      LET again == DesiredTasks(snap, settings.excludePatterns)
      IN \A j \in 1..Len(again) :
           (/\ again[j].id = run.tasks[k].id
            /\ formatDue(run.tasks[k].due) # ""
            /\ again[j].due = run.tasks[k].due
            /\ again[j].completed = run.tasks[k].completed)
           => DueTextsOf(NextRunOver(snap), again[j])
                = DueTextsOf(pages, run.tasks[k])

\* C30: when a run overwrites an existing block and the content encoded for
\* the task has a todoist-due line of its own, the content written is the
\* encoded content unchanged: the due property of the block is the due date
\* the remote reports and not the one stored before.
C30_NewDueIsWritten ==
  \A u \in run.ops.updated : \A k \in 1..Len(run.tasks) :
    LET encoded == blockContent(run.tasks[k], run.aliases)
    IN (/\ TaskOfBlock(u.after) = run.tasks[k].id
        /\ u.page = resolveTaskPageName(run.tasks[k])
        /\ extractTodoistDue(encoded) # "")
       => /\ u.after = encoded
          /\ extractTodoistDue(u.after) = formatDue(run.tasks[k].due)

(* ------------- src/src/settings.ts: the interval of the timer --------- *)
\* Numbers are kept in tenths, so that values between 0 and 1 exist.
MaxTenths == 30
Tenths == -MaxTenths..MaxTenths

\* What logseq.settings.sync_interval_minutes can hold: nothing, null, a
\* number (NaN and the infinities included), or a string the user typed:
\* a decimal numeral or another text.
IntervalSetting(kind, tenths, text) ==
  [kind |-> kind, tenths |-> tenths, text |-> text]
OtherTexts == {"", " ", "abc", "5 min"}
IntervalSettings ==
  {IntervalSetting(k, 0, "") :
     k \in {"absent", "null", "NaN", "Infinity", "-Infinity"}}
    \cup {IntervalSetting(k, t, "") : k \in {"number", "numeral"}, t \in Tenths}
    \cup {IntervalSetting("text", 0, s) : s \in OtherTexts}

\* A JavaScript number: NaN, an infinity (inf is its sign) or a finite value
\* in tenths.
Finite(t) == [nan |-> FALSE, inf |-> 0, tenths |-> t]
NaN == [nan |-> TRUE, inf |-> 0, tenths |-> 0]
Infinite(sign) == [nan |-> FALSE, inf |-> sign, tenths |-> 0]

\* Number(value): undefined gives NaN, null gives 0, a string is trimmed
\* and read as a numeral, the empty string giving 0 and any other text NaN.
Number(s) ==
  CASE s.kind = "absent" -> NaN
    [] s.kind = "null" -> Finite(0)
    [] s.kind = "NaN" -> NaN
    [] s.kind = "Infinity" -> Infinite(1)
    [] s.kind = "-Infinity" -> Infinite(-1)
    [] s.kind \in {"number", "numeral"} -> Finite(s.tenths)
    [] s.kind = "text" ->
         IF s.text \in {"", " "} THEN Finite(0) ELSE NaN

\* x || 5: NaN and 0 are falsy.
OrFive(x) == IF x.nan \/ (x.inf = 0 /\ x.tenths = 0) THEN Finite(50) ELSE x

\* Math.max(x, 1) for x that is not NaN.
MaxWithOne(x) ==
  IF x.inf = 1 THEN x
  ELSE IF x.inf = -1 \/ x.tenths < 10 THEN Finite(10)
  ELSE x

\* x * 60 * 1000 of a number in tenths, in milliseconds.
ToMilliseconds(x) ==
  [infinite |-> x.inf # 0, ms |-> IF x.inf # 0 THEN 0 ELSE x.tenths * 6000]

\* Mutation of intervalMsOf: the minutes are not clamped.
intervalMsOfUnclamped(setting) == ToMilliseconds(OrFive(Number(setting)))

\* settings.ts:224-225
intervalMsOf(setting) == ToMilliseconds(MaxWithOne(OrFive(Number(setting))))

InitInterval ==
  /\ InitState
  /\ input \in IntervalSettings
  /\ output = [applied |-> FALSE, value |-> <<>>]

\* settings.ts:220-230
readSettingsWithInterval ==
  /\ ~output.applied
  /\ output' = [applied |-> TRUE, value |-> intervalMsOf(input)]
  /\ UNCHANGED <<pages, settings, phase, run, syncInProgress, inv, sched,
                 settingsChanged, input>>

NextInterval == readSettingsWithInterval

SpecInterval == InitInterval /\ [][NextInterval]_vars

\* The stored value is zero, absent or not a number.
ZeroAbsentOrNonNumeric(s) ==
  \/ s.kind \in {"absent", "null", "NaN"}
  \/ s.kind \in {"number", "numeral"} /\ s.tenths = 0
  \/ s.kind = "text"

\* C28: whatever the stored interval (negative, between 0 and 1, zero, not
\* a number, absent), intervalMs is at least 60000, and it is 300000 (five
\* minutes) when the value is zero, absent or not a number.
C28_IntervalAtLeastOneMinute ==
  output.applied =>
    /\ output.value.infinite \/ output.value.ms >= 60000
    /\ ZeroAbsentOrNonNumeric(input)
         => ~output.value.infinite /\ output.value.ms = 300000

\* The interval of a stored number under one minute, negative or
\* fractional, has been computed as one minute.
C28_Witness ==
  /\ output.applied
  /\ input.kind = "number" /\ input.tenths < 10 /\ input.tenths # 0
  /\ output.value = [infinite |-> FALSE, ms |-> 60000]

(* --------------- the editing focus across a background run ------------ *)
\* The orchestrator that captures and restores the focus (CHANGELOG 1.1.0,
\* "preserve editing focus") is not among the sources; this section follows
\* the specification's section on the sync orchestrator.
NumBlocks == 2
MaxOffset == 1
NoFocus == [block |-> 0, pos |-> -1]
\* What the editor can report: no block is edited, or a block with the
\* offset of the cursor in it.
Focuses ==
  {NoFocus} \cup [block : 1..NumBlocks, pos : 0..MaxOffset]

\* The editor and one run: editing is what the editor reports, captured is
\* what the run recorded when it started, sessions counts the editing
\* sessions the user has started since the run started, and restored tells
\* whether the run that ended last put the focus back.
IdleEditor ==
  [pc |-> "idle", trigger |-> "manual", editing |-> NoFocus,
   captured |-> NoFocus, sessions |-> 0, restored |-> FALSE]
Editor == output.value
SetEditor(e) ==
  /\ output' = [applied |-> TRUE, value |-> e]
  /\ UNCHANGED <<pages, settings, phase, run, syncInProgress, inv, sched,
                 settingsChanged, input>>

InitFocus ==
  /\ InitState
  /\ input = <<>>
  /\ output = [applied |-> FALSE, value |-> IdleEditor]

\* The focus an automatic run records: the block being edited, with the
\* offset of the cursor when the editor gives it.
captureFocus(trigger, editing, offsetKnown) ==
  IF trigger = "auto" /\ editing.block # 0
  THEN [block |-> editing.block,
        pos |-> IF offsetKnown THEN editing.pos ELSE -1]
  ELSE NoFocus

\* Mutation of shouldRestore: the focus is put back whatever happened
\* during the run.
shouldRestoreAlways(e) == e.trigger = "auto" /\ e.captured.block # 0

\* The focus is put back after an automatic run that recorded one, unless
\* another editing session has started in the meantime.
shouldRestore(e) ==
  e.trigger = "auto" /\ e.captured.block # 0 /\ e.sessions = 0

\* A trigger starts a run.
FocusRunStarts ==
  /\ Editor.pc = "idle"
  /\ \E trigger \in Triggers : \E offsetKnown \in BOOLEAN :
       SetEditor([Editor EXCEPT
                    !.pc = "running", !.trigger = trigger,
                    !.captured = captureFocus(trigger, Editor.editing,
                                              offsetKnown),
                    !.sessions = 0, !.restored = FALSE])

\* The run rewrites the block that is edited and the editor leaves it.
FocusLost ==
  /\ Editor.pc = "running"
  /\ Editor.editing.block # 0
  /\ SetEditor([Editor EXCEPT !.editing = NoFocus])

\* The user starts to edit a block: a new editing session.
UserStartsEditing ==
  \E f \in Focuses \ {NoFocus} :
    /\ f # Editor.editing
    /\ SetEditor([Editor EXCEPT
                    !.editing = f,
                    !.sessions = IF Editor.pc = "running" THEN 1 ELSE 0])

\* The user leaves the block.
UserStopsEditing ==
  /\ Editor.editing.block # 0
  /\ SetEditor([Editor EXCEPT !.editing = NoFocus])

\* The run ends.
FocusRunEnds ==
  /\ Editor.pc = "running"
  /\ SetEditor([Editor EXCEPT
                  !.pc = "idle",
                  !.editing = IF shouldRestore(Editor)
                              THEN [block |-> Editor.captured.block,
                                    pos |-> IF Editor.captured.pos >= 0
                                            THEN Editor.captured.pos
                                            ELSE 0]
                              ELSE @,
                  !.restored = shouldRestore(Editor)])

NextFocus ==
  \/ FocusRunStarts
  \/ FocusLost
  \/ UserStartsEditing
  \/ UserStopsEditing
  \/ FocusRunEnds

SpecFocus == InitFocus /\ [][NextFocus]_vars

WriteCalls == {"updateBlock", "appendBlockInPage"}

\* The number of calls of the log that write a desired block of page p.
RECURSIVE WritesOn(_, _)
WritesOn(log, p) ==
  IF log = <<>> THEN 0
  ELSE (IF Head(log).page = p /\ Head(log).kind \in WriteCalls THEN 1 ELSE 0)
       + WritesOn(Tail(log), p)

\* C31: in the log of a run, once a block of a page has been removed by the
\* removal pass no desired block of that page is created or updated any
\* more, and every desired block of the page has been written by then; once
\* the cleanup of the other pages has removed a block, the run makes no
\* call on a destination page any more.
C31_RemovalAfterWrites ==
  phase = "done" =>
    LET log == run.ops.log
    IN \A i \in 1..Len(log) :
         /\ log[i].kind = "removeBlock"
              => /\ \A j \in i..Len(log) :
                      log[j].page = log[i].page => log[j].kind \notin WriteCalls
                 /\ WritesOn(SubSeq(log, 1, i), log[i].page)
                      = Len(BlocksOfPage(run.tasks, log[i].page, run.aliases))
         /\ log[i].kind = "cleanup"
              => \A j \in i..Len(log) : log[j].kind = "cleanup"

\* A run wrote a desired block of a page, then removed a block of that page
\* in the removal pass, and afterwards removed a block of another page in
\* the cleanup.
C31_Witness ==
  /\ phase = "done"
  /\ \E i, j, k \in 1..Len(run.ops.log) :
       /\ i < j /\ j < k
       /\ run.ops.log[i].kind \in WriteCalls
       /\ run.ops.log[j] = EditorCall("removeBlock", run.ops.log[i].page)
       /\ run.ops.log[k].kind = "cleanup"

(* ------------------- what a run leaves where it is -------------------- *)
\* The task ids of the blocks of a list, in order; 0 for a block without
\* todoist-id.
TaskIdsOf(tree) == [i \in 1..Len(tree) |-> TaskOfBlock(tree[i])]

\* C32: when a run reports a task that has a block in the page resolved for
\* it, the run overwrites that block, appends no block for the task in that
\* page, and the blocks of the page that the run does not remove keep their
\* order, the appended blocks coming after them.
C32_UpdateKeepsBlockInPlace ==
  [][SyncStep =>
       \A k \in 1..Len(run'.tasks) :
         LET id == run'.tasks[k].id
             p == resolveTaskPageName(run'.tasks[k])
             kept == SelectSeq(pages[p],
                       LAMBDA c : BlockRef(p, c) \notin run'.ops.removedByPass)
         IN BlocksOf(pages, p, id) # {}
            => /\ \A b \in run'.ops.created :
                    b.page = p => TaskOfBlock(b.content) # id
               /\ \E u \in run'.ops.updated :
                    u.page = p /\ TaskOfBlock(u.before) = id
               /\ Len(kept) <= Len(pages'[p])
               /\ TaskIdsOf(kept) = TaskIdsOf(SubSeq(pages'[p], 1, Len(kept)))
  ]_vars

\* The same property for a task whose block carries the url the run encodes:
\* the key of the block is then the key of the desired content.
C32_UpdateKeepsBlockInPlaceSameUrl ==
  [][SyncStep =>
       \A k \in 1..Len(run'.tasks) :
         LET id == run'.tasks[k].id
             p == resolveTaskPageName(run'.tasks[k])
             kept == SelectSeq(pages[p],
                       LAMBDA c : BlockRef(p, c) \notin run'.ops.removedByPass)
         IN MapHas(buildBlockMap(pages[p]), LinkText(id, TaskUrl(run'.tasks[k])))
            => /\ \A b \in run'.ops.created :
                    b.page = p => extractTodoistId(b.content)
                                    # LinkText(id, TaskUrl(run'.tasks[k]))
               /\ \E u \in run'.ops.updated :
                    u.page = p /\ TaskOfBlock(u.before) = id
               /\ Len(kept) <= Len(pages'[p])
               /\ TaskIdsOf(kept) = TaskIdsOf(SubSeq(pages'[p], 1, Len(kept)))
  ]_vars

(* -------------------- blocks that are not task blocks ----------------- *)
\* A top-level block the user wrote, and the blocks without todoist-id that
\* a page can hold: a note, or the placeholder an earlier run of the
\* single-page writeBlocks left (main.ts:488-490).
NoteBlock == <<Line("", "", 0, "my note", FALSE)>>
OwnBlocks == {NoteBlock, PlaceholderBlock}
NotesShapes == {1, 2}

\* The blocks of a list that have no todoist-id, in order.
WithoutId(tree) == SelectSeq(tree, LAMBDA c : extractTodoistId(c) = NoId)

\* The number of the user's blocks in the store.
RECURSIVE OwnBlockCount(_, _)
OwnBlockCount(pgs, todo) ==
  IF todo = {} THEN 0
  ELSE LET p == CHOOSE q \in todo : TRUE
       IN Len(SelectSeq(pgs[p], LAMBDA c : c \in OwnBlocks))
          + OwnBlockCount(pgs, todo \ {p})

\* Between two runs the user writes a block of their own at the top or at
\* the end of a page under the prefix.
UserWritesBlock ==
  /\ phase = "idle"
  /\ OwnBlockCount(pages, PageNames) < MaxNotes
  /\ \E p \in PageNames : \E c \in OwnBlocks : \E atTop \in BOOLEAN :
       pages' = [pages EXCEPT ![p] = IF atTop THEN <<c>> \o @
                                     ELSE Append(@, c)]
  /\ UNCHANGED <<settings, phase, run, syncInProgress, inv, sched,
                 settingsChanged, pure>>

SyncNotes == SyncOver(SnapshotsOf(NotesShapes))

NextNotes == SyncNotes \/ Return \/ UserWritesBlock

SpecNotes == Init /\ [][NextNotes]_vars

\* C33: a run leaves every top-level block without todoist-id as it is and
\* where it is among the blocks without todoist-id of its page: it neither
\* overwrites nor removes one, in the removal pass or in the cleanup.
C33_OwnBlocksUntouched ==
  [][SyncStep =>
       /\ \A p \in PageNames :
            LET before == WithoutId(pages[p])
                after == WithoutId(pages'[p])
            IN /\ Len(before) <= Len(after)
               /\ before = SubSeq(after, 1, Len(before))
       /\ \A u \in run'.ops.updated : extractTodoistId(u.before) # NoId
       /\ \A b \in run'.ops.removedByPass \cup run'.ops.removedByCleanup :
            extractTodoistId(b.content) # NoId]_vars

\* A page holds a note of the user and the placeholder, and a run has
\* removed a task block of that page in the removal pass.
C33_Witness ==
  /\ phase = "done"
  /\ \E p \in PageNames :
       /\ \E i, j \in 1..Len(pages[p]) :
            pages[p][i] = NoteBlock /\ pages[p][j] = PlaceholderBlock
       /\ \E b \in run.ops.removedByPass : b.page = p

\* The children of a block that are not comment wrappers, in order.
OtherChildren(children) ==
  SelectSeq(children, LAMBDA c : ~isCommentWrapper(c.content))

\* C34: when a task is processed, the children of its block that are not
\* comment wrappers are the same before and after, in the same order:
\* syncComments removes wrappers only and inserts wrappers only.
C34_OnlyWrappersRemoved ==
  [][output'.applied => OtherChildren(output'.value)
                          = OtherChildren(output.value)]_vars

\* The block had comment wrappers and notes of the user; the task was
\* processed with one comment and the notes are there, before the one
\* wrapper that is left.
C34_Witness ==
  /\ output.applied
  /\ Len(input) = 1
  /\ Len(output.value) = 3
  /\ output.value[1] = NoteChild /\ output.value[2] = NoteChild
  /\ isCommentWrapper(output.value[3].content)

\* The pages that hold a top-level block of a task.
PagesHolding(pgs, id) == {p \in PageNames : BlocksOf(pgs, p, id) # {}}

PagesHoldingUnmarked(pgs, id, statusAliases) ==
  {p \in PageNames :
     \E i \in BlocksOf(pgs, p, id) : ~MarkedCompleted(pgs[p][i], statusAliases)}

SameRunAgain == writeBlocks(pages, run.tasks, run.aliases)

\* C36: a run over the snapshot and settings of the run before it creates no
\* top-level block, removes none, neither in the removal pass nor in the
\* cleanup, and leaves every page with the blocks and contents it had.
C36_SecondRunIsFixpoint ==
  phase = "done" =>
    /\ SameRunAgain.ops.created = {}
    /\ SameRunAgain.ops.removedByPass = {}
    /\ SameRunAgain.ops.removedByCleanup = {}
    /\ SameRunAgain.pages = pages
    /\ \A u \in SameRunAgain.ops.updated : u.after = u.before

\* A run created a block for one task, overwrote the block of another one
\* and removed a block; the same run again overwrites the two blocks.
C36_Witness ==
  /\ phase = "done"
  /\ Len(run.tasks) = 2
  /\ run.ops.created # {} /\ run.ops.updated # {}
  /\ run.ops.removedByPass \cup run.ops.removedByCleanup # {}
  /\ Cardinality(SameRunAgain.ops.updated) = 2

(* ---------------- archived blocks and a change of alias --------------- *)
\* Completed tasks, with and without a completion date, reported and then
\* dropped by the remote, while the user edits the aliases between runs.
NextArchive == SyncArchive \/ Return \/ AliasChanged

SpecArchive == Init /\ [][NextArchive]_vars

\* The block was written for a completed task: its todoist-status is a
\* completed alias that no configuration uses for another status.
ArchivedAsCompleted(content) ==
  PropertyValue(content, TODOIST_STATUS_PROPERTY)
    \in {AliasDefault.completed, AliasRenamed.completed}

\* C37: no run removes a block that was archived as completed, under the
\* completed alias of the run or under an earlier one, with or without a
\* todoist-completed property.
C37_ArchivedBlockSurvivesAliasChange ==
  \A b \in RemovedBy(run) : ~ArchivedAsCompleted(b.content)

\* The same property for the archived blocks that have a todoist-completed
\* property.
C37_DatedArchivedBlockSurvives ==
  \A b \in RemovedBy(run) :
    ~(ArchivedAsCompleted(b.content) /\ hasCompletedProperty(b.content))

(* ------------- the placeholder of the single-page writer -------------- *)
\* main.ts:451-491 is the writer the entry point calls (main.ts:211): one
\* page, every desired block in it.  The page of the specification below is
\* output.value.tree, <<>> while the page does not exist.
MaxTreeLen == 5
PlaceholderShapes == {1, 2, 3, 4}

\* main.ts:16
MainPlaceholderBlock ==
  <<Line("", "", 0, "Nenhuma tarefa encontrada.", FALSE)>>

\* main.ts:364-394.  No project, description or label is modelled: the
\* lines of the three properties are "-", "Inbox" and "-".
mainBlockContent(task) ==
  LET dueText == safeLinkText(formatDue(task.due))
      taskTitle == safeLinkText(IF safeText(task.content) = ""
                                THEN "Untitled task"
                                ELSE safeText(task.content))
  IN <<Line("", IF dueText # "" THEN dueText ELSE NO_DUE_DATE, 0,
            taskTitle, TRUE),
       Line(TODOIST_ID_PROPERTY, "", task.id, "", FALSE),
       PropLine("todoist-desc", "-"),
       PropLine(TODOIST_PROJECT_PROPERTY, "Inbox"),
       PropLine("todoist-labels", "-")>>

\* main.ts:325-342: [...tasks].sort by due time, then by title (a stable
\* insertion sort), each task mapped to its content.
mainBuildBlocks(tasks) ==
  LET before(a, b) ==
        IF dueTimestamp(a.due) # dueTimestamp(b.due)
        THEN dueTimestamp(a.due) < dueTimestamp(b.due)
        ELSE localeCompare(safeText(a.content), safeText(b.content)) < 0
      RECURSIVE sorted(_)
      sorted(ts) ==
        IF ts = <<>> THEN <<>>
        ELSE LET n == Len(ts)
                 s == sorted(SubSeq(ts, 1, n - 1))
                 k == Cardinality({i \in 1..Len(s) : ~before(ts[n], s[i])})
             IN SubSeq(s, 1, k) \o <<ts[n]>> \o SubSeq(s, k + 1, Len(s))
      st == sorted(tasks)
  IN [i \in 1..Len(st) |-> mainBlockContent(st[i])]

\* main.ts:466-481, the loop over the desired blocks.
RECURSIVE mainWriteLoop(_, _)
mainWriteLoop(s, blocks) ==
  IF blocks = <<>> THEN s
  ELSE
    LET content == Head(blocks)
        todoistId == extractTodoistId(content)
    IN IF todoistId = NoId THEN mainWriteLoop(s, Tail(blocks))
       ELSE IF MapHas(s.map, todoistId)
       THEN mainWriteLoop(
              [tree |-> [s.tree EXCEPT
                           ![MapGet(s.map, todoistId).uuid] = content],
               map |-> s.map,
               seen |-> s.seen \cup {todoistId}],
              Tail(blocks))
       ELSE mainWriteLoop(
              [tree |-> Append(s.tree, content),
               map |-> Append(s.map, [key |-> todoistId,
                                      uuid |-> Len(s.tree) + 1,
                                      content |-> content]),
               seen |-> s.seen \cup {todoistId}],
              Tail(blocks))

\* main.ts:451-491: the page is created with an empty first block when it
\* is missing; the blocks of the map that were not seen are removed; the
\* placeholder is appended when there is no desired block and the map is
\* empty (removeBlock does not take an entry out of the map).
mainWriteBlocks(tree, blocks) ==
  LET existing == IF tree = <<>> THEN <<EmptyContent>> ELSE tree
      s == mainWriteLoop([tree |-> existing, map |-> buildBlockMap(existing),
                          seen |-> {}], blocks)
      obsolete == {s.map[i].uuid : i \in {j \in 1..Len(s.map) :
                                            s.map[j].key \notin s.seen}}
      kept == RemoveBlocks(s.tree, obsolete)
  IN IF Len(blocks) = 0 /\ Len(s.map) = 0
     THEN Append(kept, MainPlaceholderBlock)
     ELSE kept

OnePage == output.value

InitPlaceholder ==
  /\ InitState
  /\ input = <<>>
  /\ output = [applied |-> FALSE, value |-> [tree |-> <<>>, desired |-> 0]]

\* main.ts:200-211, one run of syncTodoist on the single page: the tasks
\* Todoist returns, buildBlocks, writeBlocks.  desired is the number of the
\* blocks of the run.  The page is capped at MaxTreeLen blocks.
SyncOnePage ==
  /\ settings.token # ""
  /\ Len(OnePage.tree) < MaxTreeLen
  /\ \E snap \in SnapshotsOf(PlaceholderShapes) :
       LET blocks == mainBuildBlocks(ListOf(snap, 1, FALSE))
       IN output' = [applied |-> TRUE,
                     value |-> [tree |-> mainWriteBlocks(OnePage.tree, blocks),
                                desired |-> Len(blocks)]]
  /\ UNCHANGED <<pages, settings, phase, run, syncInProgress, inv, sched,
                 settingsChanged, input>>

NextPlaceholder == SyncOnePage

SpecPlaceholder == InitPlaceholder /\ [][NextPlaceholder]_vars

MainPlaceholders ==
  {i \in 1..Len(OnePage.tree) : OnePage.tree[i] = MainPlaceholderBlock}

\* C38: a container never holds more than one placeholder block, however
\* many runs in a row found no task for it.
C38_AtMostOnePlaceholder == Cardinality(MainPlaceholders) <= 1

\* The case of C38: a run with no task has left the page with a placeholder.
C38_Witness ==
  /\ output.applied
  /\ OnePage.desired = 0
  /\ Cardinality(MainPlaceholders) = 1

(* ------------------------ the timer after unload ---------------------- *)
\* The specification below is SpecRun with a record of the unload kept in
\* output.value: cancelled is set when the beforeunload handler has run and
\* no startup or settings callback has called scheduleAutoSync since;
\* inFlight tells whether a call of syncTodoist("auto") had not returned
\* when the handler ran.
Unloading == output.value

AutoInFlight == \E i \in Invocations : inv[i].pc # "none"
                                       /\ inv[i].trigger = "auto"

InitUnload ==
  /\ InitState
  /\ input = <<>>
  /\ output = [applied |-> FALSE,
               value |-> [cancelled |-> FALSE, inFlight |-> FALSE]]

\* main.ts:165-174: beforeunload, cancelScheduledSync.
Cleanup ==
  /\ SetScheduler(cancelScheduledSync(Scheduler))
  /\ output' = [applied |-> TRUE,
                value |-> [cancelled |-> TRUE, inFlight |-> AutoInFlight]]
  /\ UNCHANGED <<pages, settings, phase, run, syncInProgress, inv,
                 settingsChanged, input>>

\* main.ts:158-160: the callback of onSettingsChanged, scheduleAutoSync.
OnSettingsChanged ==
  /\ settingsChanged
  /\ settingsChanged' = FALSE
  /\ SetScheduler(scheduleAutoSync(Scheduler, settings.token))
  /\ output' = [output EXCEPT !.value.cancelled = FALSE]
  /\ UNCHANGED <<pages, settings, phase, run, syncInProgress, inv, input>>

NextUnload ==
  \/ \E i \in Invocations :
       \/ CallWhileBusy(i) \/ CallWithoutToken(i) \/ CallStarts(i)
       \/ MessageShown(i) \/ MessageFails(i)
       \/ FetchPage(i) \/ FetchDone(i) \/ FetchFails(i)
       \/ WriteDone(i) \/ WriteFails(i)
  \/ TokenChanged \/ OnSettingsChanged \/ Cleanup

SpecUnload == InitUnload /\ [][NextUnload]_vars

\* C39: once cancelScheduledSync has run at unload, no timer is pending
\* until startup or a settings change calls scheduleAutoSync, also when an
\* automatic run was in flight at the unload.
C39_NoTimerAfterUnload == Unloading.cancelled => timers = {}

\* The half of C39 about an unload that finds no automatic run in flight.
C39_NoTimerAfterIdleUnload ==
  (Unloading.cancelled /\ ~Unloading.inFlight) => timers = {}

\* The case of C39: the handler has cancelled a pending timer or found an
\* automatic run in flight, and that run has returned since.
C39_Witness ==
  /\ Unloading.cancelled
  /\ Unloading.inFlight
  /\ ~AutoInFlight

(* --------------------- the timer is armed again ----------------------- *)
\* The plugin stays loaded.  Every awaited promise settles (a message is
\* shown or rejected, the fetches resolve or throw, writeBlocks resolves or
\* throws) and the host calls the callback of onSettingsChanged after a
\* change; when the user triggers or changes the token is left open.
NextLive ==
  \/ \E i \in Invocations :
       \/ CallWhileBusy(i) \/ CallWithoutToken(i) \/ CallStarts(i)
       \/ MessageShown(i) \/ MessageFails(i)
       \/ FetchPage(i) \/ FetchDone(i) \/ FetchFails(i)
       \/ WriteDone(i) \/ WriteFails(i)
  \/ TokenChanged \/ SettingsChanged

\* WriteDone(i) is enabled exactly when call i awaits writeBlocks, and a
\* step of WriteDone(i) or WriteFails(i) ends that await, so weak fairness
\* of the two is: call i is again and again not awaiting writeBlocks.
WriteSettles(i) == []<>(inv[i].pc # "write")

SpecLive ==
  /\ Init
  /\ [][NextLive]_vars
  /\ \A i \in Invocations :
       /\ WF_vars(MessageShown(i) \/ MessageFails(i))
       /\ WF_vars(FetchPage(i) \/ FetchDone(i) \/ FetchFails(i))
       /\ WriteSettles(i)
  /\ WF_vars(SettingsChanged)

\* C40: while a token is configured, a state without a pending timer (the
\* timer has fired) is followed by a state where a timer is armed again,
\* whether the automatic run succeeds, fails or is dropped.
C40_TimerArmedAgain ==
  (settings.token # "" /\ timers = {})
    ~> (timers # {} \/ settings.token = "")

\* The same, no promise of logseq.UI.showMsg rejecting.
NextNoReject ==
  \/ \E i \in Invocations :
       \/ CallWhileBusy(i) \/ CallWithoutToken(i) \/ CallStarts(i)
       \/ MessageShown(i)
       \/ FetchPage(i) \/ FetchDone(i) \/ FetchFails(i)
       \/ WriteDone(i) \/ WriteFails(i)
  \/ TokenChanged \/ SettingsChanged

SpecNoReject ==
  /\ Init
  /\ [][NextNoReject]_vars
  /\ \A i \in Invocations :
       /\ WF_vars(MessageShown(i))
       /\ WF_vars(FetchPage(i) \/ FetchDone(i) \/ FetchFails(i))
       /\ WriteSettles(i)
  /\ WF_vars(SettingsChanged)

====
